---- MODULE Spec2Model ----
(***************************************************************************)
(* Model of syntect's incremental syntax parser core, src/parsing/parser.rs *)
(* (ParseState::parse_line and everything it calls).                        *)
(*                                                                          *)
(* Byte offsets are 0-based as in the source; TLA+ sequences are 1-based,   *)
(* so the byte at offset p of a line is line[p + 1].  An Option<T> is the   *)
(* empty sequence (None) or a one-element sequence (Some).                  *)
(***************************************************************************)
EXTENDS Integers, Sequences, FiniteSets, TLC

(***************************************************************************)
(* Bounds of the model.                                                     *)
(***************************************************************************)
\* longest line handed to parse_line
MaxLen == 3
\* number of parse_line calls of one session
MaxLines == 2

\* The characters of a line.  "a" is a word character (\w), "b" is not.
Alphabet == {"a", "b"}
WordChars == {"a"}

RECURSIVE SeqsUpTo(_)
SeqsUpTo(n) ==
  IF n = 0 THEN {<<>>}
  ELSE LET shorter == SeqsUpTo(n - 1)
       IN  shorter \cup {Append(s, c) : s \in {t \in shorter : Len(t) = n - 1}, c \in Alphabet}

Lines == SeqsUpTo(MaxLen)

None == <<>>
Some(x) == <<x>>
IsSome(o) == o /= <<>>
Unwrap(o) == o[1]

Min(a, b) == IF a < b THEN a ELSE b

(***************************************************************************)
(* The regex engine (onig), modelled by what a leftmost search returns.     *)
(* A regex is [k, s, t]:                                                    *)
(*   "lit"    (s)(?=(t))   the literal s, then a lookahead for t when t is  *)
(*                         not empty; group 1 is s, group 2 the lookahead   *)
(*   "nahead" (?!s)        negative lookahead, no groups                    *)
(*   "word"   \w+          a run of word characters; group 1 is its first   *)
(*                         character and group 2 the rest                   *)
(*   "backref" \1          the text of group 1 of the frame's captures      *)
(*   "never"               a regex that never matches (or always errors)    *)
(* A Region is a sequence of Option<(start, end)>, group 0 first.           *)
(***************************************************************************)
Lit(s) == [k |-> "lit", s |-> s, t |-> <<>>]
LitAhead(s, t) == [k |-> "lit", s |-> s, t |-> t]
Ahead(t) == [k |-> "lit", s |-> <<>>, t |-> t]
Empty == [k |-> "lit", s |-> <<>>, t |-> <<>>]
NotAhead(s) == [k |-> "nahead", s |-> s, t |-> <<>>]
Word == [k |-> "word", s |-> <<>>, t |-> <<>>]
BackRef == [k |-> "backref", s |-> <<>>, t |-> <<>>]
Never == [k |-> "never", s |-> <<>>, t |-> <<>>]
\* a regex that matches s and on which the engine gives up with an error
\* (retry-limit-in-match over) when it tries a position where t stands
Hard(s, t) == [k |-> "hard", s |-> s, t |-> t]
\* a regex that does not compile
Invalid == [k |-> "invalid", s |-> <<>>, t |-> <<>>]

\* the element of a one-element set.  The({F(x) : x \in {v}}) is F of the
\* value of v, v being computed once however often F uses it.
The(S) == CHOOSE y \in S : TRUE

\* s occurs in line at byte offset p
HasAt(line, p, s) ==
  /\ p + Len(s) <= Len(line)
  /\ \A i \in 1..Len(s) : line[p + i] = s[i]

\* the end of the run of word characters that starts at p
RECURSIVE WordEnd(_, _)
WordEnd(line, p) ==
  IF p < Len(line) /\ line[p + 1] \in WordChars THEN WordEnd(line, p + 1) ELSE p

\* Region::pos
Pos(regions, i) == IF i + 1 <= Len(regions) THEN regions[i + 1] ELSE None

\* the text a back-reference to group 1 stands for, given a frame's captures
RefText(captures) ==
  LET c == Unwrap(captures)
      g == Pos(c.regions, 1)
  IN  IF IsSome(g) THEN SubSeq(c.line, Unwrap(g)[1] + 1, Unwrap(g)[2]) ELSE <<>>

\* The regions of the match of `re` that starts exactly at p, or None.
\* `refs` is Some(text) when compile_with_refs substituted the back-reference.
MatchAt(re, line, p, refs) ==
  CASE re.k = "lit" ->
         IF HasAt(line, p, re.s) /\ HasAt(line, p + Len(re.s), re.t)
         THEN LET e == p + Len(re.s)
              IN  <<Some(<<p, e>>), Some(<<p, e>>),
                    IF re.t = <<>> THEN None ELSE Some(<<e, e + Len(re.t)>>)>>
         ELSE None
    [] re.k = "nahead" ->
         IF HasAt(line, p, re.s) THEN None ELSE <<Some(<<p, p>>)>>
    [] re.k = "word" ->
         LET e == WordEnd(line, p)
         IN  IF e > p THEN <<Some(<<p, e>>), Some(<<p, p + 1>>), Some(<<p + 1, e>>)>>
             ELSE None
    [] re.k = "hard" ->
         IF HasAt(line, p, re.s) THEN <<Some(<<p, p + Len(re.s)>>)>> ELSE None
    [] re.k = "backref" ->
         IF IsSome(refs) /\ HasAt(line, p, Unwrap(refs))
         THEN <<Some(<<p, p + Len(Unwrap(refs))>>)>>
         ELSE None
    [] OTHER -> None

\* Regex::search_with_param(line, start, line.len(), ..): the leftmost match
\* that starts at or after start, or None.
RECURSIVE RegexSearch(_, _, _, _)
RegexSearch(re, line, start, refs) ==
  IF start > Len(line) THEN None
  ELSE LET m == MatchAt(re, line, start, refs)
       IN  IF m /= None THEN m ELSE RegexSearch(re, line, start + 1, refs)

\* the position at which the engine gives up while it searches from start:
\* the first position it tries, before it has found a match, where the text
\* it cannot cope with stands; None when the search comes to an end
RECURSIVE ErrorAt(_, _, _, _)
ErrorAt(re, line, start, refs) ==
  IF re.k /= "hard" \/ start > Len(line) THEN None
  ELSE IF HasAt(line, start, re.t) THEN Some(start)
  ELSE IF MatchAt(re, line, start, refs) /= None THEN None
  ELSE ErrorAt(re, line, start + 1, refs)

\* a pattern whose regex does not compile never matches
compile_fails(re) == re.k = "invalid"

\* the Result of search_with_param: Err(..) at the position `at`, or
\* Ok(regions)
search_with_param(re, line, start, refs) ==
  IF IsSome(ErrorAt(re, line, start, refs))
    THEN [err |-> TRUE, at |-> Unwrap(ErrorAt(re, line, start, refs)), regions |-> None]
    ELSE [err |-> FALSE, at |-> 0, regions |-> RegexSearch(re, line, start, refs)]

\* line 421 taking an error for a match where the engine stopped
ok_some_at_error(matched) ==
  IF matched.err THEN <<Some(<<matched.at, matched.at + 1>>)>> ELSE matched.regions

\* search, line 421: `if let Ok(Some(match_start)) = matched`; an error is
\* treated as no match
ok_some(matched) == IF matched.err THEN None ELSE matched.regions

(***************************************************************************)
(* The syntax graph (read-only input): contexts, match patterns and        *)
(* operations, as parser.rs reads them.                                     *)
(***************************************************************************)
\* MatchOperation
OpNone == [op |-> "None", refs |-> <<>>]
OpPop == [op |-> "Pop", refs |-> <<>>]
OpPush(refs) == [op |-> "Push", refs |-> refs]
OpSet(refs) == [op |-> "Set", refs |-> refs]

\* MatchPattern: regex, scope and operation; the other fields by EXCEPT
Match(regex, scope, operation) ==
  [include |-> None, regex |-> regex, has_captures |-> regex.k = "backref",
   scope |-> scope, captures |-> None, operation |-> operation,
   with_prototype |-> None]

\* Pattern::Include(context)
Include(ctx) ==
  [include |-> Some(ctx), regex |-> Never, has_captures |-> FALSE, scope |-> <<>>,
   captures |-> None, operation |-> OpNone, with_prototype |-> None]

\* Context
Context(patterns) ==
  [patterns |-> patterns, meta_scope |-> <<>>, meta_content_scope |-> <<>>,
   clear_scopes |-> None, prototype |-> None, uses_backrefs |-> FALSE]

\* The two contexts the loader adds to every syntax: __start, the bottom frame
\* of every session, and __main, which it pushes.  `proto` is the prototype
\* __main gets (None when main excludes it); __start never has one.
InitialContexts(top_level_scope, proto) ==
  [__start |-> [Context(<<Match(Empty, <<>>, OpPush(<<"__main">>))>>)
                  EXCEPT !.meta_content_scope = <<top_level_scope>>],
   __main  |-> [Context(<<Include("main")>>) EXCEPT !.prototype = proto]]

Syntax(proto, contexts) == InitialContexts("source.test", proto) @@ contexts

(***************************************************************************)
(* The syntaxes a session is created from.  Those named after a test are    *)
(* the test's syntax over the model's alphabet (a word character for the    *)
(* test's letters, "b" where the test needs another character).             *)
(***************************************************************************)
CA == <<"a">>
CB == <<"b">>

\* ClearAmount::TopN(n)
TopN(n) == [all |-> FALSE, n |-> n]

\* tests::can_parse_prototype_that_pops_main
SynPopsMain ==
  Syntax(Some("prototype"),
    [prototype |-> Context(<<Match(Ahead(CB), <<>>, OpPop)>>),
     main |-> [Context(<<Match(Lit(CA), <<"test.good">>, OpNone)>>)
                 EXCEPT !.prototype = Some("prototype")]])

\* tests::can_parse_non_consuming_pop_that_would_loop
SynPopWouldLoop ==
  Syntax(None,
    [main |-> Context(<<Match(Ahead(CA), <<>>, OpPush(<<"test">>))>>),
     test |-> Context(<<Match(NotAhead(CB), <<>>, OpPop),
                        Match(Word, <<"test.matched">>, OpNone)>>)])

\* tests::can_parse_non_consuming_set_and_pop_that_would_loop
SynSetAndPopWouldLoop ==
  Syntax(None,
    [main |-> Context(<<Match(Ahead(CA), <<>>, OpPush(<<"a">>))>>),
     a |-> Context(<<Match(Ahead(CA), <<>>, OpSet(<<"b">>))>>),
     b |-> Context(<<Match(Ahead(CA), <<>>, OpPop),
                     Match(Word, <<"test.matched">>, OpNone)>>)])

\* tests::can_parse_non_consuming_pop_that_would_loop_at_end_of_line
SynPopLoopAtEnd ==
  Syntax(None,
    [main |-> Context(<<Match(Empty, <<>>, OpPush(<<"test">>))>>),
     test |-> Context(<<Match(Empty, <<>>, OpPop),
                        Match(Word, <<"test.matched">>, OpNone)>>)])

\* tests::can_parse_non_consuming_pop_with_multi_push_that_does_not_loop
SynMultiPush ==
  Syntax(None,
    [main |-> Context(<<Match(Ahead(CA), <<>>, OpPush(<<"b", "a">>)),
                        Match(Lit(CB), <<"test.good">>, OpNone)>>),
     a |-> Context(<<Match(Empty, <<>>, OpPop),
                     Match(Word, <<"test.bad">>, OpNone)>>),
     b |-> Context(<<Match(Word, <<"test.good">>, OpNone)>>)])

\* tests::can_parse_non_consuming_pop_of_recursive_context_that_does_not_loop
SynRecursive ==
  Syntax(None,
    [main |-> Context(<<Match(Lit(CB), <<"test.good">>, OpNone),
                        Include("basic_identifiers")>>),
     basic_identifiers |->
       Context(<<Match(Lit(<<"a", "b">>), <<"test.matched">>, OpPush(<<"no_type_names">>))>>),
     no_type_names |->
       Context(<<Include("basic_identifiers"),
                 Match(Word, <<"test.matched.inside">>, OpNone),
                 Match(Empty, <<>>, OpPop)>>)])

\* tests::can_parse_non_consuming_pop_order
SynPopOrder ==
  Syntax(None,
    [main |-> Context(<<Match(Ahead(CA), <<>>, OpPush(<<"test">>))>>),
     test |-> Context(<<Match(Ahead(CB), <<>>, OpPush(<<"good">>)),
                        Match(Ahead(CA), <<>>, OpPop),
                        Match(Ahead(<<"b", "a">>), <<>>, OpPush(<<"bad">>))>>),
     good |-> Context(<<Match(Word, <<"test.good">>, OpNone),
                        Match(Lit(CB), <<>>, OpPop)>>),
     bad |-> Context(<<Match(Word, <<"test.bad">>, OpNone)>>)])

\* meta_scope, meta_content_scope and clear_scopes on pushed, set and popped
\* contexts (what push_meta_ops reads)
SynMeta ==
  Syntax(None,
    [main |-> Context(<<Match(Lit(CA), <<"keyword">>, OpPush(<<"A">>)),
                        Match(Lit(CB), <<>>, OpPush(<<"B", "A">>))>>),
     A |-> [Context(<<Match(Lit(CB), <<"end">>, OpPop),
                      Match(Lit(CA), <<>>, OpSet(<<"B">>))>>)
              EXCEPT !.meta_scope = <<"meta.a">>,
                     !.meta_content_scope = <<"content.a">>],
     B |-> [Context(<<Match(Lit(CA), <<>>, OpPop),
                      Match(Lit(CB), <<"tok">>, OpSet(<<"A">>))>>)
              EXCEPT !.meta_scope = <<"meta.b1", "meta.b2">>,
                     !.clear_scopes = Some(TopN(1))]])

\* a capture group inside a lookahead, which ends after the match does
SynLookaheadCapture ==
  Syntax(None,
    [main |-> Context(<<[Match(LitAhead(CA, CB), <<"tok">>, OpNone)
                           EXCEPT !.captures = Some(<<<<2, <<"cap.ahead">>>>>>)],
                        [Match(Word, <<>>, OpNone)
                           EXCEPT !.captures = Some(<<<<2, <<"cap.tail">>>>,
                                                      <<1, <<"cap.head", "cap.first">>>>>>)]>>)])

\* a non-consuming set of the context that is on top
SynSetLoop ==
  Syntax(None,
    [main |-> Context(<<Match(Lit(CB), <<"tok">>, OpNone),
                        Match(Ahead(CA), <<>>, OpSet(<<"main">>))>>)])

\* with_prototype on a push, a push made by the with_prototype itself, and a
\* back-reference to the pushing match
SynWithPrototype ==
  Syntax(None,
    [main |-> Context(<<[Match(Lit(CA), <<"begin">>, OpPush(<<"body">>))
                           EXCEPT !.with_prototype = Some("escape")]>>),
     escape |-> [Context(<<Match(LitAhead(CB, CA), <<>>, OpPush(<<"nested">>)),
                           Match(BackRef, <<"end">>, OpPop)>>)
                   EXCEPT !.uses_backrefs = TRUE],
     body |-> Context(<<Match(Lit(CB), <<"text">>, OpNone)>>),
     nested |-> Context(<<Match(Lit(CA), <<"inner">>, OpPop),
                          Match(Lit(CB), <<"text">>, OpNone)>>)])

\* tests::can_parse_non_consuming_pop_that_does_not_loop, "hello" read as "ab"
SynPopDoesNotLoop ==
  Syntax(None,
    [main |-> Context(<<Match(Ahead(<<"a", "b">>), <<>>, OpPush(<<"b", "a">>)),
                        Match(Lit(CB), <<"test.good">>, OpNone)>>),
     a |-> Context(<<Match(Ahead(CB), <<>>, OpPop)>>),
     b |-> Context(<<Match(Ahead(CB), <<>>, OpSet(<<"c">>))>>),
     c |-> Context(<<Match(Empty, <<>>, OpPop),
                     Match(Lit(CB), <<"test.bad">>, OpNone)>>)])

\* the syntax of SynMultiPush with an empty pop in both pushed contexts
SynMultiPushPopAll ==
  Syntax(None,
    [main |-> Context(<<Match(Ahead(CA), <<>>, OpPush(<<"b", "a">>)),
                        Match(Lit(CB), <<"test.good">>, OpNone)>>),
     a |-> Context(<<Match(Empty, <<>>, OpPop)>>),
     b |-> Context(<<Match(Empty, <<>>, OpPop),
                     Match(Word, <<"test.good">>, OpNone)>>)])

\* a context with clear_scopes and a meta_scope, entered by a Push and by Sets
\* whose patterns have a scope
SynClearScopes ==
  Syntax(None,
    [main |-> Context(<<Match(Lit(CA), <<"kw">>, OpPush(<<"C">>)),
                        Match(Lit(CB), <<"tok">>, OpSet(<<"C">>))>>),
     C |-> [Context(<<Match(Lit(CB), <<"end">>, OpPop),
                      Match(Lit(CA), <<"again">>, OpSet(<<"C">>))>>)
              EXCEPT !.meta_scope = <<"meta.c">>,
                     !.clear_scopes = Some(TopN(1))]])

\* captures declared against the order of their offsets: a group that does
\* not take part, nested groups that start together, a group that may be empty
SynCaptureOrder ==
  Syntax(None,
    [main |-> Context(<<[Match(Lit(CB), <<"lit">>, OpNone)
                           EXCEPT !.captures = Some(<<<<2, <<"cap.absent">>>>,
                                                      <<1, <<"cap.b">>>>>>)],
                        [Match(Word, <<>>, OpNone)
                           EXCEPT !.captures = Some(<<<<2, <<"cap.tail">>>>,
                                                      <<1, <<"cap.head">>>>,
                                                      <<0, <<"cap.all", "cap.word">>>>>>)]>>)])

\* two frames with a with_prototype, one above the other, and a push made by
\* the upper with_prototype
SynTwoWithPrototypes ==
  Syntax(None,
    [main |-> Context(<<[Match(Lit(CA), <<"one">>, OpPush(<<"outer">>))
                           EXCEPT !.with_prototype = Some("P1")]>>),
     outer |-> Context(<<[Match(Lit(CA), <<"two">>, OpPush(<<"inner">>))
                            EXCEPT !.with_prototype = Some("P2")]>>),
     inner |-> Context(<<Match(Lit(CA), <<"three">>, OpPop)>>),
     P1 |-> Context(<<Match(LitAhead(CB, CA), <<"p1">>, OpNone)>>),
     P2 |-> Context(<<Match(Lit(CB), <<"p2">>, OpPush(<<"deep">>))>>),
     deep |-> Context(<<Match(Lit(CA), <<"up">>, OpPop),
                        Match(LitAhead(CB, CB), <<"text">>, OpNone)>>)])

\* a context with meta scopes and clear_scopes whose patterns are included
\* from a context that has other meta scopes
SynMetaInclude ==
  Syntax(None,
    [main |-> Context(<<Match(Lit(CA), <<"open">>, OpPush(<<"M">>))>>),
     M |-> [Context(<<Include("shared")>>)
              EXCEPT !.meta_scope = <<"meta.m">>,
                     !.meta_content_scope = <<"content.m1", "content.m2">>,
                     !.clear_scopes = Some(TopN(1))],
     shared |-> [Context(<<Match(Lit(CB), <<"close">>, OpPop),
                           Match(LitAhead(CA, CA), <<"swap">>, OpSet(<<"N">>)),
                           Match(Lit(CA), <<"word">>, OpNone)>>)
                   EXCEPT !.meta_scope = <<"meta.shared">>],
     N |-> [Context(<<Match(Lit(CA), <<>>, OpPop),
                      Match(Lit(CB), <<"b">>, OpPush(<<"M", "N">>))>>)
              EXCEPT !.meta_content_scope = <<"content.n">>]])

\* Sets, from a context without meta scopes, to a context that has only a
\* meta_content_scope, only clear_scopes, or nothing of the kind
SynSetPlain ==
  Syntax(None,
    [main |-> Context(<<Match(LitAhead(CA, CA), <<"x">>, OpSet(<<"content">>)),
                        Match(LitAhead(CA, CB), <<"y">>, OpSet(<<"clear">>)),
                        Match(Lit(CA), <<"z">>, OpSet(<<"plain">>))>>),
     content |-> [Context(<<Match(Lit(CA), <<"w">>, OpNone)>>)
                    EXCEPT !.meta_content_scope = <<"content.only">>],
     clear |-> [Context(<<Match(Lit(CB), <<"w">>, OpNone)>>)
                  EXCEPT !.clear_scopes = Some(TopN(1))],
     plain |-> Context(<<Match(Lit(CB), <<"w">>, OpNone)>>)])

\* a Push and a Set of two contexts with a with_prototype
SynMultiWithPrototype ==
  Syntax(None,
    [main |-> Context(<<[Match(Lit(CA), <<"push">>, OpPush(<<"x", "y">>))
                           EXCEPT !.with_prototype = Some("P")],
                        [Match(Lit(CB), <<"set">>, OpSet(<<"x", "y">>))
                           EXCEPT !.with_prototype = Some("P")]>>),
     x |-> Context(<<Match(Lit(CA), <<"in.x">>, OpPop)>>),
     y |-> Context(<<Match(Lit(CA), <<"in.y">>, OpPop)>>),
     P |-> Context(<<Match(Lit(CB), <<"p">>, OpNone)>>)])

\* a with_prototype whose push carries a with_prototype of its own, which
\* pushes and pops in its turn
SynNestedWithPrototypes ==
  Syntax(None,
    [main |-> Context(<<[Match(Lit(CA), <<"one">>, OpPush(<<"A">>))
                           EXCEPT !.with_prototype = Some("P")]>>),
     A |-> Context(<<Match(Lit(CB), <<"in.a">>, OpNone)>>),
     P |-> Context(<<[Match(Lit(CA), <<"two">>, OpPush(<<"B">>))
                        EXCEPT !.with_prototype = Some("Q")]>>),
     B |-> Context(<<Match(Lit(CA), <<"in.b">>, OpNone)>>),
     Q |-> Context(<<Match(Lit(CA), <<"three">>, OpPush(<<"C">>)),
                     Match(Lit(CB), <<"back">>, OpPop)>>),
     C |-> Context(<<Match(Lit(CB), <<"out">>, OpPop)>>)])

\* a with_prototype whose pattern replaces, by a Set, a frame pushed above
\* the frame that carries it
SynSetFromWithPrototype ==
  Syntax(None,
    [main |-> Context(<<[Match(Lit(CA), <<"one">>, OpPush(<<"A">>))
                           EXCEPT !.with_prototype = Some("P")]>>),
     A |-> Context(<<Match(Lit(CA), <<"two">>, OpPush(<<"A2">>))>>),
     A2 |-> Context(<<Match(Lit(CA), <<"in.a2">>, OpNone)>>),
     P |-> Context(<<Match(Lit(CB), <<"swap">>, OpSet(<<"B">>))>>),
     B |-> Context(<<Match(Lit(CA), <<"in.b">>, OpNone)>>)])

\* a pattern without operation whose match is empty, '(?=b)', before
\* patterns that consume
SynEmptyNone ==
  Syntax(None,
    [main |-> Context(<<Match(Ahead(CB), <<>>, OpNone),
                        Match(Lit(CB), <<"tok">>, OpNone),
                        Match(Lit(CA), <<"word">>, OpNone)>>)])

\* two frames that carry the same with_prototype with different captures:
\* its back-reference pattern is searched twice in a step, and the same
\* stack of contexts is reached with different captures
SynBackrefTwice ==
  Syntax(None,
    [main |-> Context(<<[Match(Lit(CA), <<"open.a">>, OpPush(<<"body">>))
                           EXCEPT !.with_prototype = Some("closing")],
                        [Match(Lit(CB), <<"open.b">>, OpPush(<<"body">>))
                           EXCEPT !.with_prototype = Some("closing")]>>),
     body |-> Context(<<[Match(Lit(CB), <<"open.b">>, OpPush(<<"body">>))
                           EXCEPT !.with_prototype = Some("closing")],
                        Match(Lit(CA), <<"text">>, OpNone)>>),
     closing |-> [Context(<<Match(BackRef, <<"close">>, OpPop)>>)
                    EXCEPT !.uses_backrefs = TRUE]])

\* a pattern on which the engine gives up at a "b", and a pattern whose
\* regex does not compile, before patterns that match
SynEngineError ==
  Syntax(None,
    [main |-> Context(<<Match(Hard(CA, CB), <<"hard">>, OpNone),
                        Match(Invalid, <<"invalid">>, OpPop),
                        Match(Lit(CB), <<"tok">>, OpNone),
                        Match(Lit(CA), <<"word">>, OpNone)>>)])

Syntaxes ==
  <<SynPopsMain, SynPopWouldLoop, SynSetAndPopWouldLoop, SynPopLoopAtEnd,
    SynMultiPush, SynRecursive, SynPopOrder, SynMeta, SynLookaheadCapture,
    SynSetLoop, SynWithPrototype, SynPopDoesNotLoop, SynMultiPushPopAll,
    SynClearScopes, SynCaptureOrder, SynTwoWithPrototypes, SynMetaInclude,
    SynSetPlain, SynMultiWithPrototype, SynNestedWithPrototypes,
    SynSetFromWithPrototype, SynEmptyNone, SynBackrefTwice, SynEngineError>>

(***************************************************************************)
(* State.                                                                   *)
(*   syn                    the syntax the session was created from         *)
(*   stack, first_line, proto_starts      the fields of ParseState          *)
(*   pc                     "ready" between parse_line calls, "parsing"     *)
(*                          inside the while loop of parse_line             *)
(*   line, start, search_cache, non_consuming_push_at, res                  *)
(*                          the argument and the locals of parse_line       *)
(*                          (start is its match_start)                      *)
(*   turn                   parity of the number of turns the while loop    *)
(*                          has made in the current call                    *)
(*   trail                  what the current call has executed without      *)
(*                          consuming since start last advanced: the depths *)
(*                          recorded by its non-consuming pushes, the depth *)
(*                          and the number of contexts of the last of them, *)
(*                          and the operations executed after it            *)
(*   shadows                the pushes made so far by matches found in a    *)
(*                          with_prototype whose frames are not all popped: *)
(*                          the stack length below the pushed frames, their *)
(*                          number, the operation, the frames whose         *)
(*                          with_prototype was visited before the push, and *)
(*                          whether every pushed frame is still there       *)
(*   calls                  number of parse_line calls made so far          *)
(*   balance                Push ops emitted so far minus the sum of n over *)
(*                          the Pop(n) ops emitted so far                   *)
(*   consumer               the scope stack of a consumer that applies      *)
(*                          every emitted op in order                       *)
(*   twin                   a second session, fed the same lines: created   *)
(*                          from the same syntax or, once cloned_at is      *)
(*                          Some(n), a clone taken after n calls.  Its      *)
(*                          fields line, diverged and alike are used when   *)
(*                          it is fed lines of its own: its line, whether   *)
(*                          it has been given another line than this        *)
(*                          session, and whether its current call began in  *)
(*                          a state equal to this session's                 *)
(***************************************************************************)
VARIABLES syn, stack, first_line, proto_starts, pc, line, start, search_cache,
          non_consuming_push_at, res, turn, trail, calls, balance, consumer,
          twin, shadows

vars == <<syn, stack, first_line, proto_starts, pc, line, start, search_cache,
          non_consuming_push_at, res, turn, trail, calls, balance, consumer,
          twin, shadows>>

\* ContextPtr::borrow: the context a reference points to
Ctx(c) == Syntaxes[syn][c]

\* context_iter: the match patterns of a context and, in place and in
\* declaration order, those of the contexts it includes, as (context, index)
RECURSIVE IterPatterns(_, _)
IterPatterns(c, i) ==
  IF i > Len(Ctx(c).patterns) THEN <<>>
  ELSE LET p == Ctx(c).patterns[i]
       IN  (IF IsSome(p.include) THEN IterPatterns(Unwrap(p.include), 1)
            ELSE <<[ctx |-> c, index |-> i]>>) \o IterPatterns(c, i + 1)

context_iter(c) == IterPatterns(c, 1)

\* Context::match_at
match_at(id) == Ctx(id.ctx).patterns[id.index]

\* ScopeStackOp at a byte offset
PushOp(at, scope) == [at |-> at, op |-> "Push", scope |-> scope, n |-> 0, amount |-> None]
PopOp(at, n) == [at |-> at, op |-> "Pop", scope |-> "", n |-> n, amount |-> None]
ClearOp(at, amount) == [at |-> at, op |-> "Clear", scope |-> "", n |-> 0, amount |-> Some(amount)]
RestoreOp(at) == [at |-> at, op |-> "Restore", scope |-> "", n |-> 0, amount |-> None]

\* the search cache of one parse_line call: pattern identity -> Option<Region>
EmptyCache == [id \in {} |-> None]
CacheInsert(cache, id, entry) == (id :> entry) @@ cache

\* search, lines 400-405: Some(text) when the regex is derived by
\* compile_with_refs from the frame's captures, None when the pattern's own is
\* used
refs_regex(pat, captures) ==
  IF pat.has_captures /\ IsSome(captures) THEN Some(RefText(captures)) ELSE None

\* lines 421-438 without the test of lines 424-427: every match does something
search_result_keeps_empty(id, operation, cache, with_refs, regions) ==
  IF regions /= None
    THEN [found |-> Some(regions),
          cache |-> IF ~with_refs THEN CacheInsert(cache, id, Some(regions)) ELSE cache]
    ELSE [found |-> None,
          cache |-> IF ~with_refs THEN CacheInsert(cache, id, None) ELSE cache]

\* search, lines 421-438: what is returned and cached for the answer `regions`
\* of the regex engine
search_result(id, operation, cache, with_refs, regions) ==
  IF regions /= None
    THEN LET m == Unwrap(Pos(regions, 0))
             does_something == IF operation.op = "None" THEN m[1] /= m[2] ELSE TRUE
         IN  [found |-> IF does_something THEN Some(regions) ELSE None,
              cache |-> IF ~with_refs /\ does_something
                          THEN CacheInsert(cache, id, Some(regions))
                          ELSE cache]
    ELSE [found |-> None,
          cache |-> IF ~with_refs THEN CacheInsert(cache, id, None) ELSE cache]

\* lines 385-397 without the test of line 388: a cached region answers
\* wherever it starts
cache_answers_any_start(cache, id, from) == id \in DOMAIN cache

\* search, lines 385-397: is the search answered from the cache?
cache_answers(cache, id, from) ==
  /\ id \in DOMAIN cache
  /\ IsSome(cache[id]) => Unwrap(Pos(Unwrap(cache[id]), 0))[1] >= from

\* ParseState::search.  Returns the match, if any, and the cache afterwards.
\* ensure_compiled_if_possible (line 399) is not part of the sources read: a
\* regex that does not compile gives a pattern that never matches.
search(ln, from, id, captures, cache) ==
  IF cache_answers(cache, id, from)
    THEN [found |-> cache[id], cache |-> cache]
    ELSE IF compile_fails(match_at(id).regex)
      THEN [found |-> None, cache |-> cache]
    ELSE The({search_result(id, match_at(id).operation, cache,
                            IsSome(refs_regex(match_at(id), captures)),
                            ok_some(matched)) :
                matched \in {search_with_param(match_at(id).regex, ln, from,
                                               refs_regex(match_at(id), captures))}})

\* the frames stk[from..] (0-based), as the chain entries of their
\* with_prototypes
RECURSIVE WithPrototypes(_, _)

\* line 313 from the top of the stack down
WithPrototypes_top_first(stk, from) ==
  IF from >= Len(stk) THEN <<>>
  ELSE WithPrototypes(stk, from + 1)
       \o (IF IsSome(stk[from + 1].prototype)
             THEN <<[from_with_proto |-> TRUE, ctx |-> Unwrap(stk[from + 1].prototype),
                     captures |-> stk[from + 1].captures]>>
             ELSE <<>>)

WithPrototypes(stk, from) ==
  IF from >= Len(stk) THEN <<>>
  ELSE LET lvl == stk[from + 1]
       IN  (IF IsSome(lvl.prototype)
              THEN <<[from_with_proto |-> TRUE, ctx |-> Unwrap(lvl.prototype),
                      captures |-> lvl.captures]>>
              ELSE <<>>) \o WithPrototypes(stk, from + 1)

\* find_best_match, lines 304-318: the contexts to visit, in order
context_chain(stk, protos) ==
  LET cur_level == stk[Len(stk)]
      prototype == Ctx(cur_level.context).prototype
      proto_start == IF protos = <<>> THEN 0 ELSE protos[Len(protos)]
  IN  WithPrototypes(stk, proto_start)
      \o (IF IsSome(prototype)
            THEN <<[from_with_proto |-> FALSE, ctx |-> Unwrap(prototype), captures |-> None]>>
            ELSE <<>>)
      \o <<[from_with_proto |-> FALSE, ctx |-> cur_level.context,
            captures |-> cur_level.captures]>>

\* the two nested loops of find_best_match, flattened: every pattern visited,
\* in order
RECURSIVE Candidates(_, _)
Candidates(chain, i) ==
  IF i > Len(chain) THEN <<>>
  ELSE LET ids == context_iter(chain[i].ctx)
       IN  [k \in 1..Len(ids) |->
              [from_with_proto |-> chain[i].from_with_proto, id |-> ids[k],
               captures |-> chain[i].captures]]
           \o Candidates(chain, i + 1)

\* line 339 with <= for <: a later match at the same offset replaces the best
is_better_or_equal(match_start, min_start, pop_would_loop) ==
  \/ min_start = None
  \/ match_start <= Unwrap(min_start)

\* line 339 without its second disjunct
is_better_strictly(match_start, min_start, pop_would_loop) ==
  \/ min_start = None
  \/ match_start < Unwrap(min_start)

\* find_best_match, line 339: does a match that starts at match_start replace
\* the best match so far?  min_start is None while it is still usize::MAX,
\* which every offset is below.
is_better(match_start, min_start, pop_would_loop) ==
  \/ min_start = None
  \/ match_start < Unwrap(min_start)
  \/ (match_start = Unwrap(min_start) /\ pop_would_loop)

\* lines 348-352 with < for the negated >: no empty match is a looping pop
is_looping_pop_never(check_pop_loop, match_end, from, operation) ==
  check_pop_loop /\ match_end < from /\ operation.op = "Pop"

\* find_best_match, lines 348-352
is_looping_pop(check_pop_loop, match_end, from, operation) ==
  check_pop_loop /\ ~(match_end > from) /\ operation.op = "Pop"

\* lines 362-366 without the test of pop_would_loop
can_stop_on_looping_pop(match_start, from, pop_would_loop) == match_start = from

\* find_best_match, lines 362-366
can_stop(match_start, from, pop_would_loop) ==
  match_start = from /\ ~pop_would_loop

\* find_best_match, lines 323-371: the loop over the visited patterns from the
\* i-th on.  acc holds min_start, best_match, pop_would_loop and the cache;
\* `at` is the position in the visit order of the best match.
RECURSIVE Visit(_, _, _, _, _, _)

\* lines 346-360: the new best match, made of the i-th visited pattern c and
\* its match
NewBest(c, i, regions, pwl, cache) ==
  [min_start |-> Some(Unwrap(Pos(regions, 0))[1]),
   best |-> Some([regions |-> regions, context |-> c.id.ctx,
                  pat_index |-> c.id.index,
                  from_with_prototype |-> c.from_with_proto,
                  would_loop |-> pwl]),
   at |-> i, pop_would_loop |-> pwl, cache |-> cache]

\* lines 332-368: the body of the loop for the i-th visited pattern, r being
\* what search returned for it
Consider(cands, i, acc, ln, from, check, r) ==
  IF IsSome(r.found)
     /\ is_better(Unwrap(Pos(Unwrap(r.found), 0))[1], acc.min_start, acc.pop_would_loop)
    THEN LET m == Unwrap(Pos(Unwrap(r.found), 0))
             pwl == is_looping_pop(check, m[2], from, match_at(cands[i].id).operation)
         IN  IF can_stop(m[1], from, pwl)
               THEN [best |-> NewBest(cands[i], i, Unwrap(r.found), pwl, r.cache).best,
                     at |-> i, cache |-> r.cache]
               ELSE Visit(cands, i + 1,
                          NewBest(cands[i], i, Unwrap(r.found), pwl, r.cache),
                          ln, from, check)
    ELSE Visit(cands, i + 1, [acc EXCEPT !.cache = r.cache], ln, from, check)

Visit(cands, i, acc, ln, from, check) ==
  IF i > Len(cands) THEN [best |-> acc.best, at |-> acc.at, cache |-> acc.cache]
  ELSE The({Consider(cands, i, acc, ln, from, check, r) :
              r \in {search(ln, from, cands[i].id, cands[i].captures, acc.cache)}})

\* the state of find_best_match's loop before the first pattern
NoBest(cache) ==
  [min_start |-> None, best |-> None, at |-> 0, pop_would_loop |-> FALSE, cache |-> cache]

\* ParseState::find_best_match
find_best_match(stk, protos, ln, from, cache, check_pop_loop) ==
  The({Visit(cands, 1, NoBest(cache), ln, from, check_pop_loop) :
         cands \in {Candidates(context_chain(stk, protos), 1)}})

(***************************************************************************)
(* The operation emitter.                                                   *)
(***************************************************************************)
RECURSIVE SumLen(_, _)
\* the sum of the lengths of field f ("meta_scope", ..) over the contexts refs
SumLen(refs, f) ==
  IF refs = <<>> THEN 0 ELSE Len(Ctx(Head(refs))[f]) + SumLen(Tail(refs), f)

Pushes(at, scopes) == [k \in 1..Len(scopes) |-> PushOp(at, scopes[k])]

\* push_meta_ops, lines 531-544: the initial meta ops of a Push or a Set
RECURSIVE InitialRefOps(_, _, _)

\* lines 531-544 with the Clear after the pushes of the meta_scope
InitialRefOps_clear_last(at, refs, is_set) ==
  IF refs = <<>> THEN <<>>
  ELSE Pushes(at, Ctx(Head(refs)).meta_scope)
       \o (IF ~is_set /\ IsSome(Ctx(Head(refs)).clear_scopes)
             THEN <<ClearOp(at, Unwrap(Ctx(Head(refs)).clear_scopes))>> ELSE <<>>)
       \o InitialRefOps(at, Tail(refs), is_set)

InitialRefOps(at, refs, is_set) ==
  IF refs = <<>> THEN <<>>
  ELSE LET ctx == Ctx(Head(refs))
       IN  (IF ~is_set /\ IsSome(ctx.clear_scopes)
              THEN <<ClearOp(at, Unwrap(ctx.clear_scopes))>> ELSE <<>>)
           \o Pushes(at, ctx.meta_scope)
           \o InitialRefOps(at, Tail(refs), is_set)

\* push_meta_ops, lines 571-588: the pushes after the token of a Push or a Set
RECURSIVE RepushRefOps(_, _, _)

\* the pushes after the token without the loop of lines 585-587
RepushRefOps_without_content(at, refs, is_set) ==
  IF refs = <<>> THEN <<>>
  ELSE (IF is_set /\ IsSome(Ctx(Head(refs)).clear_scopes)
          THEN <<ClearOp(at, Unwrap(Ctx(Head(refs)).clear_scopes))>> ELSE <<>>)
       \o Pushes(at, Ctx(Head(refs)).meta_scope)
       \o RepushRefOps(at, Tail(refs), is_set)

\* the pushes after the token with the meta_content_scope before the
\* meta_scope
RepushRefOps_content_first(at, refs, is_set) ==
  IF refs = <<>> THEN <<>>
  ELSE (IF is_set /\ IsSome(Ctx(Head(refs)).clear_scopes)
          THEN <<ClearOp(at, Unwrap(Ctx(Head(refs)).clear_scopes))>> ELSE <<>>)
       \o Pushes(at, Ctx(Head(refs)).meta_content_scope)
       \o Pushes(at, Ctx(Head(refs)).meta_scope)
       \o RepushRefOps(at, Tail(refs), is_set)

RepushRefOps(at, refs, is_set) ==
  IF refs = <<>> THEN <<>>
  ELSE LET ctx == Ctx(Head(refs))
       IN  (IF is_set /\ IsSome(ctx.clear_scopes)
              THEN <<ClearOp(at, Unwrap(ctx.clear_scopes))>> ELSE <<>>)
           \o Pushes(at, ctx.meta_scope)
           \o Pushes(at, ctx.meta_content_scope)
           \o RepushRefOps(at, Tail(refs), is_set)

\* lines 503-517 with the two scope lists taken the other way round
pop_meta_ops_swapped(initial, index, cur_context) ==
  LET v == IF initial THEN cur_context.meta_scope
           ELSE cur_context.meta_content_scope
  IN  (IF v /= <<>> THEN <<PopOp(index, Len(v))>> ELSE <<>>)
      \o (IF ~initial /\ cur_context.clear_scopes /= None
            THEN <<RestoreOp(index)>> ELSE <<>>)

\* push_meta_ops, lines 503-517: the meta ops of a Pop
pop_meta_ops(initial, index, cur_context) ==
  LET v == IF initial THEN cur_context.meta_content_scope
           ELSE cur_context.meta_scope
  IN  (IF v /= <<>> THEN <<PopOp(index, Len(v))>> ELSE <<>>)
      \o (IF ~initial /\ cur_context.clear_scopes /= None
            THEN <<RestoreOp(index)>> ELSE <<>>)

\* lines 539-550 of a Set: does it push the meta scopes again after the token?
repush_of_set_without_clear(cur_context, refs) ==
  \/ cur_context.meta_scope /= <<>>
  \/ cur_context.meta_content_scope /= <<>>
  \/ \E k \in 1..Len(refs) : Ctx(refs[k]).meta_content_scope /= <<>>

\* push_meta_ops, lines 546-551, for a Set
repush_of_set(cur_context, refs) ==
  \/ cur_context.meta_scope /= <<>>
  \/ cur_context.meta_content_scope /= <<>>
  \/ \E k \in 1..Len(refs) :
       \/ Ctx(refs[k]).meta_content_scope /= <<>>
       \/ IsSome(Ctx(refs[k]).clear_scopes)

\* ParseState::push_meta_ops: the ops it appends
push_meta_ops(initial, index, cur_context, match_op) ==
  CASE match_op.op = "Pop" -> pop_meta_ops(initial, index, cur_context)
    [] match_op.op \in {"Push", "Set"} ->
         LET is_set == match_op.op = "Set"
             refs == match_op.refs
         IN  IF initial THEN InitialRefOps(index, refs, is_set)
             ELSE
               LET repush ==
                     IF is_set THEN repush_of_set(cur_context, refs)
                     ELSE \E k \in 1..Len(refs) :
                            Ctx(refs[k]).meta_content_scope /= <<>>
                   num_to_pop ==
                     SumLen(refs, "meta_scope")
                     + (IF is_set
                          THEN Len(cur_context.meta_content_scope)
                               + Len(cur_context.meta_scope)
                          ELSE 0)
               IN  IF repush
                     THEN (IF num_to_pop > 0 THEN <<PopOp(index, num_to_pop)>> ELSE <<>>)
                          \o RepushRefOps(index, refs, is_set)
                     ELSE <<>>
    [] OTHER -> <<>>

\* i32::MIN
I32Min == -2147483647 - 1

\* exec_pattern, lines 464-477: the records ((offset, key), op) of the
\* captures that matched a non-empty range, in declaration order
RECURSIVE CaptureRecords(_, _)
CaptureRecords(capture_map, regions) ==
  IF capture_map = <<>> THEN <<>>
  ELSE LET cap_index == Head(capture_map)[1]
           scopes == Head(capture_map)[2]
           pos == Pos(regions, cap_index)
           cap_start == Unwrap(pos)[1]
           cap_end == Unwrap(pos)[2]
       IN  (IF IsSome(pos) /\ cap_start /= cap_end
              THEN [k \in 1..Len(scopes) |->
                      [key |-> <<cap_start, -(cap_end - cap_start)>>,
                       op |-> PushOp(cap_start, scopes[k])]]
                   \o <<[key |-> <<cap_end, I32Min>>, op |-> PopOp(cap_end, Len(scopes))]>>
              ELSE <<>>)
           \o CaptureRecords(Tail(capture_map), regions)

\* Ord for (usize, i32)
KeyLess(a, b) == a[1] < b[1] \/ (a[1] = b[1] /\ a[2] < b[2])

\* put x behind every record of the sorted sequence that is not greater
RECURSIVE InsertSorted(_, _)
InsertSorted(sorted, x) ==
  IF sorted = <<>> THEN <<x>>
  ELSE IF KeyLess(x.key, Head(sorted).key) THEN <<x>> \o sorted
  ELSE <<Head(sorted)>> \o InsertSorted(Tail(sorted), x)

\* exec_pattern, line 478: map.sort_by(|a, b| a.0.cmp(&b.0)), a stable sort
RECURSIVE sort_by_key(_)

\* line 478 left out: the records in the order of the capture map
sort_by_key_left_out(map) == map

sort_by_key(map) ==
  IF map = <<>> THEN <<>>
  ELSE The({InsertSorted(sorted, map[Len(map)]) :
              sorted \in {sort_by_key(SubSeq(map, 1, Len(map) - 1))}})

\* exec_pattern, lines 459-482: the capture ops it appends
OpsOf(map) == [k \in 1..Len(map) |-> map[k].op]

capture_ops(pat, regions) ==
  IF IsSome(pat.captures)
    THEN The({OpsOf(sorted) :
                sorted \in {sort_by_key(CaptureRecords(Unwrap(pat.captures),
                                                       regions))}})
    ELSE <<>>

\* the pattern of a RegexMatch
MatchPattern(reg_match) ==
  match_at([ctx |-> reg_match.context, index |-> reg_match.pat_index])

\* lines 448-487 with the meta ops of the context that owns the pattern
exec_pattern_ops_of_owner(reg_match, level_context) ==
  LET m == Unwrap(Pos(reg_match.regions, 0))
      pat == MatchPattern(reg_match)
  IN  push_meta_ops(TRUE, m[1], Ctx(reg_match.context), pat.operation)
      \o Pushes(m[1], pat.scope)
      \o capture_ops(pat, reg_match.regions)
      \o (IF pat.scope /= <<>> THEN <<PopOp(m[2], Len(pat.scope))>> ELSE <<>>)
      \o push_meta_ops(FALSE, m[2], Ctx(reg_match.context), pat.operation)

\* ParseState::exec_pattern, lines 448-487: the ops it appends
exec_pattern_ops(reg_match, level_context) ==
  LET m == Unwrap(Pos(reg_match.regions, 0))
      pat == MatchPattern(reg_match)
  IN  push_meta_ops(TRUE, m[1], level_context, pat.operation)
      \o Pushes(m[1], pat.scope)
      \o capture_ops(pat, reg_match.regions)
      \o (IF pat.scope /= <<>> THEN <<PopOp(m[2], Len(pat.scope))>> ELSE <<>>)
      \o push_meta_ops(FALSE, m[2], level_context, pat.operation)

(***************************************************************************)
(* The stack mutator.                                                       *)
(***************************************************************************)
\* Vec::pop
PopFrame(stk) == SubSeq(stk, 1, Len(stk) - 1)

\* perform_op, lines 610-638: push the frames of ctx_refs from the i-th on
RECURSIVE PushFrames(_, _, _, _, _, _)

\* lines 610-638 without the test of line 616: every pushed frame gets the
\* with_prototype
PushFrames_prototype_on_all(stk, ctx_refs, i, pat, regions, ln) ==
  IF i > Len(ctx_refs) THEN stk
  ELSE PushFrames(Append(stk, [context |-> ctx_refs[i],
                               prototype |-> pat.with_prototype,
                               captures |->
                                 IF Ctx(ctx_refs[i]).uses_backrefs
                                    \/ (IsSome(pat.with_prototype)
                                        /\ Ctx(Unwrap(pat.with_prototype)).uses_backrefs)
                                   THEN Some([regions |-> regions, line |-> ln])
                                   ELSE None]),
                  ctx_refs, i + 1, pat, regions, ln)

\* lines 610-638 without lines 624-626: the with_prototype does not count
PushFrames_context_only(stk, ctx_refs, i, pat, regions, ln) ==
  IF i > Len(ctx_refs) THEN stk
  ELSE PushFrames(Append(stk, [context |-> ctx_refs[i],
                               prototype |-> IF i = Len(ctx_refs)
                                               THEN pat.with_prototype ELSE None,
                               captures |-> IF Ctx(ctx_refs[i]).uses_backrefs
                                              THEN Some([regions |-> regions,
                                                         line |-> ln])
                                              ELSE None]),
                  ctx_refs, i + 1, pat, regions, ln)

PushFrames(stk, ctx_refs, i, pat, regions, ln) ==
  IF i > Len(ctx_refs) THEN stk
  ELSE LET proto == IF i = Len(ctx_refs) THEN pat.with_prototype ELSE None
           uses_backrefs ==
             Ctx(ctx_refs[i]).uses_backrefs
             \/ (IsSome(proto) /\ Ctx(Unwrap(proto)).uses_backrefs)
           captures ==
             IF uses_backrefs THEN Some([regions |-> regions, line |-> ln]) ELSE None
       IN  PushFrames(Append(stk, [context |-> ctx_refs[i], prototype |-> proto,
                                   captures |-> captures]),
                      ctx_refs, i + 1, pat, regions, ln)

\* perform_op with Push sharing the arm of Set, as the two do in push_meta_ops
perform_op_push_as_set(stk, ln, regions, pat) ==
  CASE pat.operation.op \in {"Push", "Set"} ->
         PushFrames(PopFrame(stk), pat.operation.refs, 1, pat, regions, ln)
    [] pat.operation.op = "Pop" -> PopFrame(stk)
    [] OTHER -> stk

\* ParseState::perform_op: the stack afterwards
perform_op(stk, ln, regions, pat) ==
  CASE pat.operation.op = "Push" ->
         PushFrames(stk, pat.operation.refs, 1, pat, regions, ln)
    [] pat.operation.op = "Set" ->
         PushFrames(PopFrame(stk), pat.operation.refs, 1, pat, regions, ln)
    [] pat.operation.op = "Pop" -> PopFrame(stk)
    [] OTHER -> stk

(***************************************************************************)
(* The session driver.                                                      *)
(***************************************************************************)
\* lines 237-240 with `if` for `while`: one entry at most is removed
TrimProtoStarts_once(protos, depth) ==
  IF protos /= <<>> /\ protos[Len(protos)] >= depth
    THEN SubSeq(protos, 1, Len(protos) - 1)
    ELSE protos

\* lines 237-240 with > for >=: an entry equal to the stack length is kept
RECURSIVE TrimProtoStarts_keeps_equal(_, _)
TrimProtoStarts_keeps_equal(protos, depth) ==
  IF protos /= <<>> /\ protos[Len(protos)] > depth
    THEN TrimProtoStarts_keeps_equal(SubSeq(protos, 1, Len(protos) - 1), depth)
    ELSE protos

\* parse_next_token, lines 237-240
RECURSIVE TrimProtoStarts(_, _)
TrimProtoStarts(protos, depth) ==
  IF protos /= <<>> /\ protos[Len(protos)] >= depth
    THEN TrimProtoStarts(SubSeq(protos, 1, Len(protos) - 1), depth)
    ELSE protos

\* lines 232-235 without the comparison of the position
check_pop_loop_any_position(marker, from, stk) == marker[2] = Len(stk)

\* parse_next_token, lines 232-235
check_pop_loop(marker, from, stk) == marker[1] = from /\ marker[2] = Len(stk)

\* lines 265-278 with a non-consuming Set forgetting the recorded push
update_marker_reset_by_set(marker, match_end, from, operation, depth) ==
  IF ~(match_end > from) /\ operation.op = "Push"
    THEN <<match_end, depth + 1>>
    ELSE IF ~(match_end > from) /\ operation.op = "Set" THEN <<0, 0>>
    ELSE marker

\* lines 265-278 recording the depth of the topmost pushed frame
update_marker_top_depth(marker, match_end, from, operation, depth) ==
  IF ~(match_end > from) /\ operation.op = "Push"
    THEN <<match_end, depth + Len(operation.refs)>>
    ELSE marker

\* lines 265-278 recording the position behind the match
update_marker_next_position(marker, match_end, from, operation, depth) ==
  IF ~(match_end > from) /\ operation.op = "Push"
    THEN <<match_end + 1, depth + 1>>
    ELSE marker

\* lines 265-278 without the test of consuming: every Push is recorded
update_marker_any_push(marker, match_end, from, operation, depth) ==
  IF operation.op = "Push" THEN <<match_end, depth + 1>> ELSE marker

\* parse_next_token, lines 265-278: the loop marker after an executed match
update_marker(marker, match_end, from, operation, depth) ==
  IF ~(match_end > from) /\ operation.op = "Push"
    THEN <<match_end, depth + 1>>
    ELSE marker

\* lines 245-263 without the test of the end of the line
would_loop_step_always_advances(unchanged, ln, from) ==
  [unchanged EXCEPT !.continue = TRUE, !.start = from + 1]

\* parse_next_token, lines 245-263: the step whose best match would loop;
\* unchanged is the step that does nothing and returns false
would_loop_step(unchanged, ln, from) ==
  IF from = Len(ln) THEN unchanged
  ELSE [unchanged EXCEPT !.continue = TRUE, !.start = from + 1]

\* lines 292-294 moving on by one byte, as after a looping pop
no_match_step_advances(stk, trimmed, ln, from, marker, fb) ==
  [continue |-> from < Len(ln), stack |-> stk, proto_starts |-> trimmed,
   start |-> IF from < Len(ln) THEN from + 1 ELSE from, cache |-> fb.cache,
   marker |-> marker, ops |-> <<>>, best |-> fb.best, at |-> fb.at]

\* parse_next_token, lines 292-294: the step that executes nothing and
\* returns false
no_match_step(stk, trimmed, ln, from, marker, fb) ==
  [continue |-> FALSE, stack |-> stk, proto_starts |-> trimmed,
   start |-> from, cache |-> fb.cache, marker |-> marker,
   ops |-> <<>>, best |-> fb.best, at |-> fb.at]

\* parse_next_token, lines 244-294: what it does with the answer fb of
\* find_best_match.  The record holds its result (continue), what it leaves in
\* self and in the locals of parse_line, the ops it appended, and the match.
after_find_best_match(stk, trimmed, ln, from, marker, fb) ==
  LET unchanged == no_match_step(stk, trimmed, ln, from, marker, fb)
  IN  IF IsSome(fb.best)
        THEN LET reg_match == Unwrap(fb.best)
                 match_end == Unwrap(Pos(reg_match.regions, 0))[2]
                 pat == MatchPattern(reg_match)
             IN  IF reg_match.would_loop
                   THEN would_loop_step(unchanged, ln, from)
                   ELSE [continue |-> TRUE,
                         stack |-> perform_op(stk, ln, reg_match.regions, pat),
                         proto_starts |->
                           IF reg_match.from_with_prototype
                             THEN Append(trimmed, Len(stk)) ELSE trimmed,
                         start |-> match_end,
                         cache |-> fb.cache,
                         marker |-> update_marker(marker, match_end, from,
                                                  pat.operation, Len(stk)),
                         ops |-> exec_pattern_ops(reg_match, Ctx(stk[Len(stk)].context)),
                         best |-> fb.best, at |-> fb.at]
        ELSE unchanged

parse_next_token(stk, protos, ln, from, cache, marker) ==
  The({after_find_best_match(stk, TrimProtoStarts(protos, Len(stk)), ln, from,
                             marker, fb) :
         fb \in {find_best_match(stk, TrimProtoStarts(protos, Len(stk)), ln, from,
                                 cache, check_pop_loop(marker, from, stk))}})

\* the op of the first line without the test of self.first_line
first_line_ops_every_call(stk, first) ==
  IF Ctx(stk[Len(stk)].context).meta_content_scope /= <<>>
    THEN <<PushOp(0, Ctx(stk[Len(stk)].context).meta_content_scope[1])>>
    ELSE <<>>

\* parse_line, lines 198-205: the op of the first line
first_line_ops(stk, first) ==
  LET context == Ctx(stk[Len(stk)].context)
  IN  IF first /\ context.meta_content_scope /= <<>>
        THEN <<PushOp(0, context.meta_content_scope[1])>>
        ELSE <<>>

\* struct ParseState
ParseStateOf(stk, first, protos) ==
  [stack |-> stk, first_line |-> first, proto_starts |-> protos]

\* ParseState::new
new == ParseStateOf(<<[context |-> "__start", prototype |-> None, captures |-> None]>>,
                    TRUE, <<>>)

\* a copy that leaves the frames' captures behind
clone_without_captures(ps) ==
  [stack |-> [i \in 1..Len(ps.stack) |->
                [context |-> ps.stack[i].context,
                 prototype |-> ps.stack[i].prototype,
                 captures |-> None]],
   first_line |-> ps.first_line,
   proto_starts |-> ps.proto_starts]

\* #[derive(Clone)] on StateLevel and ParseState: a copy, field by field
clone(ps) ==
  [stack |-> [i \in 1..Len(ps.stack) |->
                [context |-> ps.stack[i].context,
                 prototype |-> ps.stack[i].prototype,
                 captures |-> ps.stack[i].captures]],
   first_line |-> ps.first_line,
   proto_starts |-> ps.proto_starts]

\* locals that outlive the call: the cache and the marker of the call before
stale_locals(old_cache, old_marker) == [cache |-> old_cache, marker |-> old_marker]

\* parse_line, lines 207-211: the locals of a call, whatever an earlier call
\* left in its own
fresh_locals(old_cache, old_marker) == [cache |-> EmptyCache, marker |-> <<0, 0>>]

(***************************************************************************)
(* The consumer of the ops: ScopeStack::apply, by the number of scopes it   *)
(* holds.  cleared holds the sizes of the sets hidden by Clear.             *)
(***************************************************************************)
NewScopeStack == [depth |-> 0, cleared |-> <<>>, underflow |-> FALSE]

apply(c, op) ==
  CASE op.op = "Push" -> [c EXCEPT !.depth = @ + 1]
    [] op.op = "Pop" ->
         IF op.n > c.depth THEN [c EXCEPT !.depth = 0, !.underflow = TRUE]
         ELSE [c EXCEPT !.depth = @ - op.n]
    [] op.op = "Clear" ->
         LET amount == Unwrap(op.amount)
             k == IF amount.all THEN c.depth ELSE Min(amount.n, c.depth)
         IN  [c EXCEPT !.depth = @ - k, !.cleared = Append(@, k)]
    [] OTHER ->
         IF c.cleared = <<>> THEN c
         ELSE [c EXCEPT !.depth = @ + c.cleared[Len(c.cleared)],
                        !.cleared = SubSeq(@, 1, Len(@) - 1)]

RECURSIVE ApplyAll(_, _)
ApplyAll(c, ops) == IF ops = <<>> THEN c ELSE ApplyAll(apply(c, Head(ops)), Tail(ops))

\* Push ops minus the scopes popped by Pop(n) ops
RECURSIVE PushesMinusPops(_)
PushesMinusPops(ops) ==
  IF ops = <<>> THEN 0
  ELSE (CASE Head(ops).op = "Push" -> 1
          [] Head(ops).op = "Pop" -> 0 - Head(ops).n
          [] OTHER -> 0)
       + PushesMinusPops(Tail(ops))

(***************************************************************************)
(* Actions.                                                                 *)
(***************************************************************************)
\* the twin session between two calls: a ParseState and no locals
NewTwin(ps, cloned_at) ==
  [state |-> ps, pc |-> "ready", start |-> 0, cache |-> EmptyCache,
   marker |-> <<0, 0>>, res |-> <<>>, cloned_at |-> cloned_at,
   line |-> <<>>, diverged |-> FALSE, alike |-> FALSE]

\* the twin session enters parse_line (lines 192-211) as a caller that made
\* no call before
TwinBegin(t) ==
  [state |-> ParseStateOf(t.state.stack, FALSE, t.state.proto_starts),
   pc |-> "parsing", start |-> 0,
   cache |-> fresh_locals(EmptyCache, <<0, 0>>).cache,
   marker |-> fresh_locals(EmptyCache, <<0, 0>>).marker,
   res |-> first_line_ops(t.state.stack, t.state.first_line),
   cloned_at |-> t.cloned_at,
   line |-> t.line, diverged |-> t.diverged, alike |-> t.alike]

\* the twin session after a call of parse_next_token that answered r
TwinStep(t, r) ==
  [state |-> ParseStateOf(r.stack, FALSE, r.proto_starts),
   pc |-> IF r.continue THEN "parsing" ELSE "ready",
   start |-> r.start, cache |-> r.cache, marker |-> r.marker,
   res |-> t.res \o r.ops, cloned_at |-> t.cloned_at,
   line |-> t.line, diverged |-> t.diverged, alike |-> t.alike]

\* one turn of the twin's while loop on the line ln, if it is in the loop
TwinNextToken(t, ln) ==
  IF t.pc = "parsing" /\ t.state.stack /= <<>>
    THEN The({TwinStep(t, r) :
                r \in {parse_next_token(t.state.stack, t.state.proto_starts, ln,
                                        t.start, t.cache, t.marker)}})
    ELSE t

\* the step r of parse_next_token has executed a pattern (exec_pattern was
\* called)
Executed(r) == IsSome(r.best) /\ ~Unwrap(r.best).would_loop

\* the operation of the pattern the step r has found
OperationOf(r) == MatchPattern(Unwrap(r.best)).operation

\* nothing executed at the current position yet
NoTrail == [depths |-> {}, depth |-> 0, pushed |-> 0, since_push |-> {}]

\* the trail after the step r taken from the stack stk at offset from
TrailAfter(tr, r, stk, from) ==
  IF r.start /= from THEN NoTrail
  ELSE IF ~Executed(r) THEN tr
  ELSE IF OperationOf(r).op = "Push"
    THEN [depths |-> tr.depths \cup {Len(stk) + 1}, depth |-> Len(stk) + 1,
          pushed |-> Len(OperationOf(r).refs), since_push |-> {}]
    ELSE [tr EXCEPT !.since_push = @ \cup {OperationOf(r).op}]

\* find_best_match, lines 312-314: the frames (1-based) of stk whose
\* with_prototype is visited, trimmed being proto_starts: those that have one,
\* from the 0-based index proto_starts.last(), or 0, up to the top
with_prototype_frames(stk, trimmed) ==
  {i \in ((IF trimmed = <<>> THEN 0 ELSE trimmed[Len(trimmed)]) + 1)..Len(stk) :
     IsSome(stk[i].prototype)}

\* the pushes of with_prototype matches after the step r taken from the stack
\* stk with proto_starts trimmed: a push all of whose frames are gone is
\* forgotten, one that has lost a frame is no longer whole, and the push of r
\* is added if r was found in a with_prototype
ShadowsAfter(sh, r, stk, trimmed) ==
  IF ~Executed(r) THEN sh
  ELSE LET o == OperationOf(r)
           base == IF o.op \in {"Pop", "Set"} THEN Len(stk) - 1 ELSE Len(stk)
           n == IF o.op \in {"Push", "Set"} THEN Len(o.refs) ELSE 0
       IN  {[e EXCEPT !.whole = e.whole /\ base >= e.base + e.n] :
              e \in {e \in sh : base + n > e.base}}
           \cup (IF Unwrap(r.best).from_with_prototype /\ n > 0
                   THEN {[base |-> base, n |-> n, op |-> o.op,
                          consulted |-> with_prototype_frames(stk, trimmed),
                          whole |-> TRUE]}
                   ELSE {})

Init ==
  /\ syn \in 1..Len(Syntaxes)
  /\ stack = new.stack
  /\ first_line = new.first_line
  /\ proto_starts = new.proto_starts
  /\ pc = "ready"
  /\ line = <<>>
  /\ start = 0
  /\ search_cache = EmptyCache
  /\ non_consuming_push_at = <<0, 0>>
  /\ res = <<>>
  /\ turn = 0
  /\ trail = NoTrail
  /\ shadows = {}
  /\ calls = 0
  /\ balance = 0
  /\ consumer = NewScopeStack
  /\ twin = NewTwin(new, None)

\* the session and the locals of parse_line after a call of parse_next_token
\* that answered r
Step(r) ==
  /\ pc' = IF r.continue THEN "parsing" ELSE "ready"
  /\ stack' = r.stack
  /\ proto_starts' = r.proto_starts
  /\ start' = r.start
  /\ search_cache' = r.cache
  /\ non_consuming_push_at' = r.marker
  /\ res' = res \o r.ops
  /\ balance' = balance + PushesMinusPops(r.ops)
  /\ consumer' = ApplyAll(consumer, r.ops)

\* parse_line up to its while loop (lines 192-211), for a line ln.  The twin
\* session is given the same line.
ParseLineBeginOf(ln, tw) ==
    /\ pc = "ready"
    /\ calls < MaxLines
    /\ IF stack = <<>>
         THEN /\ pc' = "panicked"
              /\ UNCHANGED <<first_line, line, start, search_cache,
                             non_consuming_push_at, res, turn, trail, balance,
                             consumer, twin>>
         ELSE LET ops == first_line_ops(stack, first_line)
                  locals == fresh_locals(search_cache, non_consuming_push_at)
              IN  /\ pc' = "parsing"
                  /\ first_line' = FALSE
                  /\ line' = ln
                  /\ start' = 0
                  /\ search_cache' = locals.cache
                  /\ non_consuming_push_at' = locals.marker
                  /\ res' = ops
                  /\ turn' = 0
                  /\ trail' = NoTrail
                  /\ balance' = balance + PushesMinusPops(ops)
                  /\ consumer' = ApplyAll(consumer, ops)
                  /\ twin' = tw
    /\ calls' = calls + 1
    /\ UNCHANGED <<syn, stack, proto_starts, shadows>>

ParseLineBegin == \E ln \in Lines : ParseLineBeginOf(ln, TwinBegin(twin))

\* one turn of the while loop of parse_line: a call of parse_next_token and,
\* when it answers false, the return of parse_line
ParseNextTokenOf(twin_line) ==
  /\ pc = "parsing"
  /\ IF stack = <<>>
       THEN /\ pc' = "panicked"
            /\ UNCHANGED <<stack, proto_starts, start, search_cache,
                           non_consuming_push_at, res, turn, trail, balance,
                           consumer, twin, shadows>>
       ELSE \E r \in {parse_next_token(stack, proto_starts, line, start,
                                       search_cache, non_consuming_push_at)} :
              /\ Step(r)
              /\ turn' = 1 - turn
              /\ trail' = TrailAfter(trail, r, stack, start)
              /\ shadows' = ShadowsAfter(shadows, r, stack,
                                         TrimProtoStarts(proto_starts, Len(stack)))
              /\ twin' = TwinNextToken(twin, twin_line)
  /\ UNCHANGED <<syn, first_line, line, calls>>

ParseNextToken == ParseNextTokenOf(line)

\* the caller clones the session between two calls; from then on the twin is
\* the clone
CloneState ==
  /\ pc = "ready"
  /\ calls < MaxLines
  /\ twin.cloned_at = None
  /\ twin' = NewTwin(clone(ParseStateOf(stack, first_line, proto_starts)), Some(calls))
  /\ UNCHANGED <<syn, stack, first_line, proto_starts, pc, line, start, search_cache,
                 non_consuming_push_at, res, turn, trail, calls, balance,
                 consumer, shadows>>

Next == ParseLineBegin \/ ParseNextToken \/ CloneState

Spec == Init /\ [][Next]_vars

\* parse_line runs to completion: its loop is never left waiting
FairSpec == Spec /\ WF_vars(ParseNextToken)

\* lines 43-45
context_ptr_eq(a, b) == a = b

\* lines 47-57 without line 55: the captures are not compared
state_level_eq_without_captures(a, b) ==
  /\ context_ptr_eq(a.context, b.context)
  /\ CASE IsSome(a.prototype) /\ IsSome(b.prototype) ->
             context_ptr_eq(Unwrap(a.prototype), Unwrap(b.prototype))
        [] ~IsSome(a.prototype) /\ ~IsSome(b.prototype) -> TRUE
        [] OTHER -> FALSE

\* impl PartialEq for StateLevel, lines 47-57
state_level_eq(a, b) ==
  /\ context_ptr_eq(a.context, b.context)
  /\ CASE IsSome(a.prototype) /\ IsSome(b.prototype) ->
             context_ptr_eq(Unwrap(a.prototype), Unwrap(b.prototype))
        [] ~IsSome(a.prototype) /\ ~IsSome(b.prototype) -> TRUE
        [] OTHER -> FALSE
  /\ a.captures = b.captures

\* #[derive(PartialEq)] on ParseState, line 27: the fields one by one, the
\* stack frame by frame
parse_state_eq(a, b) ==
  /\ Len(a.stack) = Len(b.stack)
  /\ \A i \in 1..Len(a.stack) : state_level_eq(a.stack[i], b.stack[i])
  /\ a.first_line = b.first_line
  /\ a.proto_starts = b.proto_starts

\* the two sessions are given a first line each
BeginApart ==
  /\ twin.pc = "ready"
  /\ calls = 0
  /\ \E ln, twin_line \in Lines :
       ParseLineBeginOf(ln, [TwinBegin(twin) EXCEPT !.line = twin_line,
                                                    !.diverged = @ \/ ln /= twin_line,
                                                    !.alike = FALSE])

\* the two sessions compare equal and are given the same line
BeginAlike ==
  /\ twin.pc = "ready"
  /\ calls >= 1
  /\ parse_state_eq(twin.state, ParseStateOf(stack, first_line, proto_starts))
  /\ \E ln \in Lines :
       ParseLineBeginOf(ln, [TwinBegin(twin) EXCEPT !.line = ln, !.alike = TRUE])

\* a turn of the loop of each session that is in its loop
StepBoth ==
  IF pc = "parsing"
    THEN ParseNextTokenOf(twin.line)
    ELSE /\ twin.pc = "parsing"
         /\ twin' = TwinNextToken(twin, twin.line)
         /\ UNCHANGED <<syn, stack, first_line, proto_starts, pc, line, start,
                        search_cache, non_consuming_push_at, res, turn, trail,
                        calls, balance, consumer, shadows>>

NextOfTwo == BeginApart \/ BeginAlike \/ StepBoth

\* two sessions over the same syntax, each with lines of its own until they
\* compare equal
SpecOfTwo == Init /\ [][NextOfTwo]_vars

(***************************************************************************)
(* Properties.                                                              *)
(***************************************************************************)
\* C1: parse_line terminates: every call that has entered its loop comes back,
\* whatever the syntax, the session and the line.
ParseLineTerminates == (pc = "parsing") ~> (pc = "ready")

\* C2: in every reachable state, between calls and at every step inside a call,
\* the context stack is non-empty: the assertion at the start of parse_line
\* never fails and the top of the stack can always be read, also after a
\* pattern has popped the main context.
StackNeverEmpty == stack /= <<>> /\ pc /= "panicked"

\* a pattern of main has consumed input and popped main: only the frame of
\* __start is left, inside a call
MainPopped == pc = "parsing" /\ Len(stack) = 1 /\ start > 0

\* C3: the byte offsets of the ops returned by one parse_line call never
\* decrease along the sequence, across steps and within one match, capture
\* ops included.
OffsetsNonDecreasing == \A i \in 1..(Len(res) - 1) : res[i].at <= res[i + 1].at

\* the meta-scope depth a stack induces: the meta_scope and
\* meta_content_scope entries of the contexts of its frames
RECURSIVE MetaDepth(_)
MetaDepth(stk) ==
  IF stk = <<>> THEN 0
  ELSE Len(Ctx(Head(stk).context).meta_scope)
       + Len(Ctx(Head(stk).context).meta_content_scope)
       + MetaDepth(Tail(stk))

\* C6: after any sequence of completed parse_line calls from a fresh session,
\* the Push ops emitted so far minus the scopes popped by the Pop(n) ops
\* emitted so far equal the meta-scope depth of the current stack.
BalanceIsMetaDepth == (pc = "ready" /\ calls > 0) => balance = MetaDepth(stack)

\* two calls are done, the stack holds frames with meta scopes above __main
\* and scopes have been popped on the way
BalancedDeepStack ==
  /\ pc = "ready" /\ calls = 2
  /\ Len(stack) > 2 /\ MetaDepth(stack) > 2
  /\ \E i \in 1..Len(res) : res[i].op = "Pop" /\ res[i].n > 1

\* C7: the ops emitted by any sequence of parse_line calls from a fresh
\* session, applied in order to an empty scope stack, never pop more scopes
\* than it holds.
NoPopUnderflows == ~consumer.underflow

\* the result and the session of the twin are those of this session
SameAsTwin ==
  /\ twin.pc = "ready"
  /\ twin.res = res
  /\ twin.state = ParseStateOf(stack, first_line, proto_starts)

\* C4: two sessions freshly created from the same syntax and fed the same
\* lines return the same ops for every line and end in equal ParseStates,
\* although one of them holds on to the search cache and the loop marker of
\* its last call and the other never had any.
FreshSessionsAgree == (pc = "ready" /\ calls > 0 /\ twin.cloned_at = None) => SameAsTwin

\* both sessions have returned from their second call, which emitted ops, and
\* the first call left a cache and a loop marker behind
SecondLineOfTwoSessions ==
  /\ pc = "ready" /\ calls = 2 /\ twin.cloned_at = None
  /\ res /= <<>> /\ Len(stack) > 2
  /\ search_cache /= EmptyCache /\ non_consuming_push_at /= <<0, 0>>

\* C5: a clone of a reachable ParseState, given a line, returns the ops the
\* original returns for that line and ends in an equal ParseState.  (The
\* clone is a value of its own: no step of the twin writes a variable of the
\* original.)
CloneParsesAlike ==
  (pc = "ready" /\ IsSome(twin.cloned_at) /\ calls > Unwrap(twin.cloned_at))
    => SameAsTwin

\* the clone was taken after the first call from a stack whose top frame
\* holds captures, and both have parsed the second line
CloneOfDeepStateParsed ==
  /\ pc = "ready" /\ twin.cloned_at = Some(1) /\ calls = 2
  /\ res /= <<>>
  /\ \E i \in 1..Len(twin.state.stack) : IsSome(twin.state.stack[i].captures)

\* C8: only the first parse_line call of a session emits the initial op: it
\* starts its ops with (0, Push(meta_content_scope[0])) of the bottom context
\* and nothing else of that context; first_line is false from then on, and a
\* later call starts with no op.
FirstLineOpOnlyOnce ==
  /\ [](first_line <=> calls = 0)
  /\ [](calls = 1 =>
          /\ res /= <<>>
          /\ res[1] = PushOp(0, Ctx(stack[1].context).meta_content_scope[1])
          /\ \A i \in 2..Len(res) :
               res[i].scope \notin
                 {Ctx(stack[1].context).meta_content_scope[k] :
                    k \in 1..Len(Ctx(stack[1].context).meta_content_scope)})
  /\ [][(pc = "ready" /\ pc' = "parsing" /\ calls > 0) => res' = <<>>]_vars

\* a second call has returned ops, the first of them a Push at offset 0 that
\* a pattern made
LaterCallPushesAtZero ==
  /\ pc = "ready" /\ calls = 2 /\ ~first_line
  /\ res /= <<>> /\ res[1].op = "Push" /\ res[1].at = 0

\* the patterns find_best_match visits in the current state, in order
Visited ==
  Candidates(context_chain(stack, TrimProtoStarts(proto_starts, Len(stack))), 1)

\* what find_best_match returns in the current state
Winner ==
  find_best_match(stack, TrimProtoStarts(proto_starts, Len(stack)), line, start,
                  search_cache, check_pop_loop(non_consuming_push_at, start, stack))

\* a search of the visited pattern c from an earlier start of the line ends
\* with an error of the engine
ErredBefore(c) ==
  \E q \in 0..(start - 1) :
    search_with_param(match_at(c.id).regex, line, q,
                      refs_regex(match_at(c.id), c.captures)).err

\* the pattern c is out for the rest of the line: an earlier search of it
\* ended with an error, which lines 434-436 have cached as 'no match'
OutForTheLine(c) ==
  /\ c.id \in DOMAIN search_cache
  /\ search_cache[c.id] = None
  /\ ErredBefore(c)

\* the usable match of every visited pattern at or after start, searched for
\* with nothing cached; a pattern that is out for the line has none
Usable(cands) ==
  [i \in 1..Len(cands) |->
     IF OutForTheLine(cands[i]) THEN None
     ELSE search(line, start, cands[i].id, cands[i].captures, EmptyCache).found]

StartOf(regions) == Unwrap(Pos(regions, 0))[1]
EndOf(regions) == Unwrap(Pos(regions, 0))[2]

\* the i-th visited pattern is a looping pop
LoopingPop(cands, u, i) ==
  is_looping_pop(check_pop_loop(non_consuming_push_at, start, stack),
                 EndOf(Unwrap(u[i])), start, match_at(cands[i].id).operation)

\* the visited patterns with a usable match, and those whose match starts
\* leftmost
Matching(u) == {i \in DOMAIN u : IsSome(u[i])}
Leftmost(u) ==
  {i \in Matching(u) :
     \A j \in Matching(u) : StartOf(Unwrap(u[i])) <= StartOf(Unwrap(u[j]))}
First(S) == CHOOSE i \in S : \A j \in S : i <= j

\* fb is a leftmost match of cands, and the first visited of them when none of
\* them is a looping pop
LeftmostFirst(cands, u, fb) ==
  /\ IsSome(fb.best) <=> Matching(u) /= {}
  /\ IsSome(fb.best) =>
       /\ fb.at \in Leftmost(u)
       /\ Unwrap(fb.best).regions = Unwrap(u[fb.at])
       /\ Unwrap(fb.best).context = cands[fb.at].id.ctx
       /\ Unwrap(fb.best).pat_index = cands[fb.at].id.index
       /\ (\A i \in Leftmost(u) : ~LoopingPop(cands, u, i))
            => fb.at = First(Leftmost(u))

BestAfter(cands, k) ==
  Visit(SubSeq(cands, 1, k), 1, NoBest(search_cache), line, start,
        check_pop_loop(non_consuming_push_at, start, stack))

\* b, the best after k patterns, is a looping pop
IsLoopingPop(b) == IsSome(b.best) /\ Unwrap(b.best).would_loop

\* the pattern visited next, whose search found r, has replaced the looping
\* pop b in b2 exactly if it matches no further right than b
GivesWay(k, b, r, b2) ==
  (b2.at = k + 1)
    <=> (IsSome(r) /\ StartOf(Unwrap(r)) <= StartOf(Unwrap(b.best).regions))

\* the step t of parse_next_token has executed no pattern
NothingExecuted(t) ==
  /\ t.ops = <<>>
  /\ t.stack = stack
  /\ t.marker = non_consuming_push_at
  /\ t.start = IF t.continue THEN start + 1 ELSE start

\* C10: while the best match is a looping pop, the pattern visited next
\* replaces it if and only if its match starts at the same offset (or an
\* earlier one), never when it starts at a greater one; when the looping pop
\* is still the best after the whole chain, the step executes no pattern.
LoopingPopGivesWay ==
  (pc = "parsing" /\ stack /= <<>>)
    => \A cands \in {Visited} :
         /\ \A k \in 1..(Len(cands) - 1) : \A b \in {BestAfter(cands, k)} :
              IsLoopingPop(b)
                => \A r \in {search(line, start, cands[k + 1].id,
                                    cands[k + 1].captures, b.cache).found} :
                     \A b2 \in {BestAfter(cands, k + 1)} : GivesWay(k, b, r, b2)
         /\ \A fb \in {Winner} :
              IsLoopingPop(fb)
                => \A t \in {parse_next_token(stack, proto_starts, line, start,
                                              search_cache, non_consuming_push_at)} :
                     NothingExecuted(t)

\* a looping pop was the best match until a pattern visited later, matching
\* at the same offset, replaced it
LoopingPopReplaced ==
  /\ pc = "parsing" /\ stack /= <<>>
  /\ \E cands \in {Visited} : \E k \in 1..(Len(cands) - 1) :
       \E b \in {BestAfter(cands, k)} : \E b2 \in {BestAfter(cands, k + 1)} :
         /\ IsLoopingPop(b)
         /\ b2.at = k + 1
         /\ StartOf(Unwrap(b2.best).regions) = StartOf(Unwrap(b.best).regions)

\* what parse_next_token does in the current state
Token ==
  parse_next_token(stack, proto_starts, line, start, search_cache,
                   non_consuming_push_at)

\* the step t executes a Pop whose match consumes nothing
NonConsumingPop(t) ==
  Executed(t) /\ OperationOf(t).op = "Pop" /\ t.start = start

\* C11: a Pop whose match consumes nothing is never executed in a step where
\* the loop marker equals (start, stack length); and a non-consuming Push at a
\* position is never followed, before start advances, by a non-consuming Pop
\* there that takes the stack from the depth the push recorded back below it.
LoopingPopNeverExecuted ==
  (pc = "parsing" /\ stack /= <<>>)
    => \A t \in {Token} :
         NonConsumingPop(t)
           => /\ ~check_pop_loop(non_consuming_push_at, start, stack)
              /\ Len(stack) \notin trail.depths

\* after a non-consuming push at this position the stack is at the depth the
\* push recorded, and the best match is a Pop that consumes nothing: it is
\* not executed
PopBackAfterPushSkipped ==
  /\ pc = "parsing" /\ stack /= <<>>
  /\ Len(stack) \in trail.depths
  /\ check_pop_loop(non_consuming_push_at, start, stack)
  /\ \E t \in {Token} :
       /\ IsSome(t.best) /\ OperationOf(t).op = "Pop"
       /\ EndOf(Unwrap(t.best).regions) = start
       /\ ~Executed(t) /\ t.stack = stack

\* C12: a step whose winner is a looping pop ends the line when start equals
\* the length of the line, and otherwise moves start on by exactly one and
\* goes on parsing; either way it emits no op and leaves the stack, the loop
\* marker and, but for the trimming, proto_starts as they were.
LoopingPopAdvancesOrStops ==
  [][(pc = "parsing" /\ stack /= <<>> /\ IsLoopingPop(Token))
       => /\ IF start = Len(line)
               THEN pc' = "ready" /\ start' = start
               ELSE pc' = "parsing" /\ start' = start + 1
          /\ res' = res
          /\ stack' = stack
          /\ proto_starts' = TrimProtoStarts(proto_starts, Len(stack))
          /\ non_consuming_push_at' = non_consuming_push_at]_vars

\* the winner is a looping pop found at the end of a line that is not empty,
\* and the step ends the line
LoopingPopAtEndOfLine ==
  /\ pc = "parsing" /\ stack /= <<>>
  /\ start = Len(line) /\ start > 0
  /\ IsLoopingPop(Token)
  /\ ~Token.continue

\* the best match of the step t is a Pop whose match ends at start
BestIsEmptyPop(t) ==
  /\ IsSome(t.best)
  /\ OperationOf(t).op = "Pop"
  /\ EndOf(Unwrap(t.best).regions) = start

\* since the last non-consuming Push at this position only Sets have been
\* executed, none consuming, and the stack has the depth the push recorded
OnlySetsSincePush ==
  /\ trail.pushed > 0
  /\ trail.since_push \subseteq {"Set"}
  /\ Len(stack) = trail.depth

\* C13: a non-consuming Set executed between a non-consuming Push and a
\* non-consuming Pop does not disarm the loop guard: after a non-consuming
\* Push at a position and any number of non-consuming Sets there that keep the
\* stack depth, a non-consuming Pop at that position is a looping pop.
SetKeepsGuardArmed ==
  (pc = "parsing" /\ stack /= <<>> /\ OnlySetsSincePush)
    => /\ check_pop_loop(non_consuming_push_at, start, stack)
       /\ \A cands \in {Visited} : \A k \in 1..Len(cands) :
            \A b \in {BestAfter(cands, k)} : BestIsEmptyPop(b) => IsLoopingPop(b)
       /\ \A t \in {Token} :
            BestIsEmptyPop(t) => (IsLoopingPop(t) /\ ~Executed(t))

\* a Set was executed without consuming after a non-consuming Push, and the
\* non-consuming Pop found next in the chain is a looping pop
PopAfterPushAndSetWouldLoop ==
  /\ pc = "parsing" /\ stack /= <<>>
  /\ OnlySetsSincePush /\ "Set" \in trail.since_push
  /\ \E cands \in {Visited} : \E k \in 1..Len(cands) :
       \E b \in {BestAfter(cands, k)} : BestIsEmptyPop(b) /\ IsLoopingPop(b)

\* the step t has popped one frame and left start where it was
PoppedOneFrame(t) ==
  /\ Executed(t)
  /\ t.stack = SubSeq(stack, 1, Len(stack) - 1)
  /\ t.start = start

\* C14: after a non-consuming Push of two or more contexts from depth d at a
\* position, a non-consuming Pop there of a frame above depth d + 1 is
\* executed; only the non-consuming Pop taken at depth d + 1, which would
\* return to the pushing context, is a looping pop.
MultiPushPopsDownToFirstFrame ==
  (pc = "parsing" /\ stack /= <<>> /\ trail.pushed >= 2)
    => /\ \A cands \in {Visited} : \A k \in 1..Len(cands) :
            \A b \in {BestAfter(cands, k)} :
              BestIsEmptyPop(b) => (IsLoopingPop(b) <=> Len(stack) = trail.depth)
       /\ \A t \in {Token} :
            (BestIsEmptyPop(t) /\ Len(stack) > trail.depth) => PoppedOneFrame(t)

\* two contexts were pushed without consuming and the upper one is popped
\* without consuming
UpperFrameOfMultiPushPopped ==
  /\ pc = "parsing" /\ stack /= <<>>
  /\ trail.pushed >= 2 /\ trail.since_push = {}
  /\ Len(stack) = trail.depth + 1
  /\ BestIsEmptyPop(Token) /\ PoppedOneFrame(Token)

\* the loop marker is not (start, stack length)
MarkerElsewhere == non_consuming_push_at /= <<start, Len(stack)>>

\* C15: a non-consuming Pop that is the best match is executed, one frame
\* popped and start left alone, whenever the loop marker differs from
\* (start, stack length); and the marker differs whenever start has advanced
\* since the last non-consuming Push.
PopElsewhereIsExecuted ==
  (pc = "parsing" /\ stack /= <<>>)
    => /\ trail.pushed = 0 => MarkerElsewhere
       /\ MarkerElsewhere
            => \A t \in {Token} :
                 BestIsEmptyPop(t) => (~IsLoopingPop(t) /\ PoppedOneFrame(t))

\* start has advanced since the last non-consuming Push, the stack has the
\* depth that push recorded, and an empty Pop is executed
PopAtRecordedDepthAfterAdvance ==
  /\ pc = "parsing" /\ stack /= <<>>
  /\ trail.pushed = 0
  /\ non_consuming_push_at[2] = Len(stack)
  /\ non_consuming_push_at[1] < start
  /\ BestIsEmptyPop(Token) /\ PoppedOneFrame(Token)

\* the indexes of the Clear ops of ops
ClearsOf(ops) == {i \in 1..Len(ops) : ops[i].op = "Clear"}

\* the contexts of refs that have clear_scopes
ClearingRefs(refs) == {r \in 1..Len(refs) : IsSome(Ctx(refs[r]).clear_scopes)}

\* from index j on, ops holds the pushes of scopes at the offset at
PushesFrom(ops, j, at, scopes) ==
  \A q \in 1..Len(scopes) :
    j + q - 1 <= Len(ops) /\ ops[j + q - 1] = PushOp(at, scopes[q])

\* the Clear at index i of ops is that of a context of refs and the pushes of
\* the meta_scope of that context follow it
ClearThenMetaScope(ops, i, refs) ==
  \E r \in ClearingRefs(refs) :
    /\ ops[i].amount = Ctx(refs[r]).clear_scopes
    /\ PushesFrom(ops, i + 1, ops[i].at, Ctx(refs[r]).meta_scope)

\* the Clear at index i of ops is at match_start and precedes the pushes of
\* the scope of the pattern
ClearBeforeToken(ops, i, m, pat) ==
  /\ ops[i].at = m[1]
  /\ \E j \in (i + 1)..(Len(ops) + 1) : PushesFrom(ops, j, m[1], pat.scope)

\* the Clear at index i of ops is at match_end and follows the pushes and the
\* Pop of the scope of the pattern
ClearAfterToken(ops, i, m, pat) ==
  /\ ops[i].at = m[2]
  /\ pat.scope /= <<>>
       => \E j0 \in 1..(i - 1) : \E j \in (j0 + 1)..(i - 1) :
            /\ PushesFrom(ops, j0, m[1], pat.scope)
            /\ ops[j] = PopOp(m[2], Len(pat.scope))

\* the Clear ops of the step t, whose winner m is the pattern pat
ClearsInPlace(t, m, pat) ==
  /\ Cardinality(ClearsOf(t.ops)) = Cardinality(ClearingRefs(pat.operation.refs))
  /\ \A i \in ClearsOf(t.ops) :
       /\ ClearThenMetaScope(t.ops, i, pat.operation.refs)
       /\ IF pat.operation.op = "Push"
            THEN ClearBeforeToken(t.ops, i, m, pat)
            ELSE ClearAfterToken(t.ops, i, m, pat)

\* C16: a winning Push to a context with clear_scopes emits the Clear at
\* match_start, before the pushes of that context's meta_scope and before the
\* pushes of the scope of the token; a winning Set to such a context emits no
\* Clear before the token, and emits it at match_end after the Pop of the
\* scope of the token.
ClearBeforePushAfterSet ==
  (pc = "parsing" /\ stack /= <<>>)
    => \A t \in {Token} :
         (Executed(t) /\ OperationOf(t).op \in {"Push", "Set"})
           => ClearsInPlace(t, Unwrap(Pos(Unwrap(t.best).regions, 0)),
                            MatchPattern(Unwrap(t.best)))

\* a Push has emitted a Clear before the pushes of its token at offset 0, and
\* the Set of a token that is not empty, to a context with clear_scopes, is
\* executed next
ClearOfPushThenOfSet ==
  /\ pc = "parsing" /\ stack /= <<>>
  /\ \E i \in ClearsOf(res) : \E j \in (i + 1)..Len(res) :
       res[i].at = 0 /\ res[j] = PushOp(0, "kw")
  /\ \E t \in {Token} :
       /\ Executed(t) /\ OperationOf(t).op = "Set"
       /\ MatchPattern(Unwrap(t.best)).scope /= <<>>
       /\ StartOf(Unwrap(t.best).regions) < EndOf(Unwrap(t.best).regions)
       /\ ClearsOf(t.ops) /= {}

\* the range of the capture c = (cap_index, scopes) in regions
RangeOf(c, regions) == Unwrap(Pos(regions, c[1]))

\* the captures of the map cm that matched a range of regions that is not
\* empty, by their index in the map
Marked(cm, regions) ==
  {c \in 1..Len(cm) :
     /\ IsSome(Pos(regions, cm[c][1]))
     /\ RangeOf(cm[c], regions)[1] /= RangeOf(cm[c], regions)[2]}

\* the indexes in co of the pushes of the scopes of the capture c
PushesOfCapture(co, c) ==
  {i \in 1..Len(co) :
     co[i].op = "Push" /\ \E q \in 1..Len(c[2]) : co[i].scope = c[2][q]}

RECURSIVE SumOver(_, _)
\* the sum of Len(cm[c][2]) + 1 over the captures c of the set S
SumOver(cm, S) ==
  IF S = {} THEN 0
  ELSE LET c == CHOOSE x \in S : TRUE
       IN  Len(cm[c][2]) + 1 + SumOver(cm, S \ {c})

\* the capture ops co emitted for the capture map cm and the regions
CaptureOpsInOrder(co, cm, regions) ==
  /\ \A i, j \in 1..Len(co) : i < j => co[i].at <= co[j].at
  /\ \A i, j \in 1..Len(co) :
       (co[i].op = "Pop" /\ co[j].op = "Push" /\ co[i].at = co[j].at) => i < j
  /\ \A c, d \in Marked(cm, regions) :
       LET rc == RangeOf(cm[c], regions)
           rd == RangeOf(cm[d], regions)
       IN  (rc[1] = rd[1] /\ rc[2] > rd[2])
             => \A i \in PushesOfCapture(co, cm[c]) :
                  \A j \in PushesOfCapture(co, cm[d]) : i < j
  /\ \A c \in Marked(cm, regions) :
       LET rc == RangeOf(cm[c], regions)
       IN  /\ Cardinality(PushesOfCapture(co, cm[c])) = Len(cm[c][2])
           /\ \A i \in PushesOfCapture(co, cm[c]) : co[i].at = rc[1]
           /\ \E i \in 1..Len(co) : co[i] = PopOp(rc[2], Len(cm[c][2]))
  /\ \A c \in (1..Len(cm)) \ Marked(cm, regions) : PushesOfCapture(co, cm[c]) = {}
  /\ Len(co) = SumOver(cm, Marked(cm, regions))

\* ops holds the sequence co as a run of consecutive ops
HoldsRun(ops, co) ==
  \E j \in 1..(Len(ops) + 1) :
    j + Len(co) - 1 <= Len(ops) /\ SubSeq(ops, j, j + Len(co) - 1) = co

\* C17: the capture ops of every winning match are emitted sorted by offset
\* whatever the order the captures are declared in: the pushes of a longer
\* capture before those of a shorter one that starts at the same offset, a Pop
\* before every Push at the same offset, the pops in ascending order, each
\* Pop(n) with n the number of scopes of its capture, and no op at all for a
\* capture that did not match or matched an empty range.
CaptureOpsSorted ==
  (pc = "parsing" /\ stack /= <<>>)
    => \A t \in {Token} :
         (Executed(t) /\ IsSome(MatchPattern(Unwrap(t.best)).captures))
           => \A co \in {capture_ops(MatchPattern(Unwrap(t.best)),
                                     Unwrap(t.best).regions)} :
                /\ HoldsRun(t.ops, co)
                /\ CaptureOpsInOrder(co, Unwrap(MatchPattern(Unwrap(t.best)).captures),
                                     Unwrap(t.best).regions)

\* the winner has three captures, declared last first, two of them starting
\* at the same offset and the third where the shorter of them ends
NestedCapturesDeclaredBackwards ==
  /\ pc = "parsing" /\ stack /= <<>>
  /\ \E t \in {Token} :
       /\ Executed(t) /\ IsSome(MatchPattern(Unwrap(t.best)).captures)
       /\ \E cm \in {Unwrap(MatchPattern(Unwrap(t.best)).captures)} :
            /\ Cardinality(Marked(cm, Unwrap(t.best).regions)) = 3
            /\ cm[1][1] > cm[2][1] /\ cm[2][1] > cm[3][1]

\* the context of the frame lvl, or the with_prototype attached to it, uses
\* back-references
FrameUsesBackrefs(lvl) ==
  \/ Ctx(lvl.context).uses_backrefs
  \/ IsSome(lvl.prototype) /\ Ctx(Unwrap(lvl.prototype)).uses_backrefs

\* the number of frames of the stack the step t leaves on it
Retained(t) ==
  IF Executed(t) /\ OperationOf(t).op \in {"Pop", "Set"}
    THEN Len(stack) - 1 ELSE Len(stack)

\* every entry of the chain carries the captures of the frame it comes from
ChainCarriesFrameCaptures(chain) ==
  /\ chain[Len(chain)].captures = stack[Len(stack)].captures
  /\ \A e \in 1..Len(chain) :
       chain[e].from_with_proto
         => \E i \in 1..Len(stack) :
              /\ stack[i].prototype = Some(chain[e].ctx)
              /\ stack[i].captures = chain[e].captures

\* C18: a frame carries a captures snapshot exactly if its context or the
\* with_prototype attached to it uses back-references; the snapshot holds the
\* regions of the pushing match and the pushing line, it is the one the
\* searches of the frame's context and with_prototype get, and it stays as it
\* is for as long as the frame is on the stack, over later lines as well.
SnapshotIffBackrefsAndKept ==
  /\ [](\A i \in 1..Len(stack) :
          IsSome(stack[i].captures) <=> FrameUsesBackrefs(stack[i]))
  /\ []((pc = "parsing" /\ stack /= <<>>)
          => ChainCarriesFrameCaptures(
               context_chain(stack, TrimProtoStarts(proto_starts, Len(stack)))))
  /\ [][IF pc = "parsing" /\ stack /= <<>>
          THEN \A t \in {Token} :
                 /\ Len(stack') >= Retained(t)
                 /\ SubSeq(stack', 1, Retained(t)) = SubSeq(stack, 1, Retained(t))
                 /\ \A i \in (Retained(t) + 1)..Len(stack') :
                      IsSome(stack'[i].captures)
                        => stack'[i].captures
                             = Some([regions |-> Unwrap(t.best).regions,
                                     line |-> line])
          ELSE stack' = stack]_vars

\* on a later line, a frame pushed on an earlier one, for the sake of its
\* with_prototype only, still holds the snapshot of the line it was pushed
\* on, and a pattern with a back-reference is searched with it
SnapshotOfEarlierLineSearched ==
  /\ pc = "parsing" /\ stack /= <<>> /\ calls = 2
  /\ \E i \in 1..Len(stack) :
       /\ IsSome(stack[i].captures)
       /\ ~Ctx(stack[i].context).uses_backrefs
       /\ Unwrap(stack[i].captures).line /= line
       /\ \E c \in 1..Len(Visited) :
            /\ Visited[c].captures = stack[i].captures
            /\ match_at(Visited[c].id).has_captures

\* no visited pattern has a usable match at or after start
NoUsableMatch == \A u \in {Usable(Visited)} : Matching(u) = {}

\* C19: when no pattern of the visited chain has a usable match at or after
\* start, the step ends the line, emits no op and leaves the stack as it is;
\* a call that is not the first of the session starts with no op and the
\* stack as the call before left it, so a line on which nothing matches
\* returns no op and leaves the frames exactly as they were.
NoMatchEndsLine ==
  /\ [][(pc = "parsing" /\ stack /= <<>> /\ NoUsableMatch)
          => /\ pc' = "ready"
             /\ res' = res
             /\ stack' = stack
             /\ start' = start]_vars
  /\ [][(pc = "ready" /\ pc' = "parsing" /\ ~first_line)
          => (res' = <<>> /\ stack' = stack /\ start' = 0)]_vars

\* a later call has begun on a line that is not empty, above the two bottom
\* frames, and nothing matches on the line
NothingMatchesOnLaterLine ==
  /\ pc = "parsing" /\ calls = 2 /\ ~first_line
  /\ start = 0 /\ res = <<>> /\ turn = 0
  /\ line /= <<>>
  /\ Len(stack) > 2
  /\ NoUsableMatch

\* proto_starts as find_best_match sees it
Trimmed == TrimProtoStarts(proto_starts, Len(stack))

\* the frames (1-based) whose with_prototype is visited: those with one, from
\* the 0-based index proto_starts.last(), or 0, up to the top
Consulted == with_prototype_frames(stack, Trimmed)

\* the k-th frame of Consulted from the bottom
KthConsulted(k) ==
  CHOOSE i \in Consulted : Cardinality({j \in Consulted : j < i}) = k - 1

\* the chain is made of the with_prototypes of the consulted frames from the
\* bottom up, then the prototype of the top context if it has one, then the
\* top context
ChainInOrder(chain) ==
  LET n == Cardinality(Consulted)
      prototype == Ctx(stack[Len(stack)].context).prototype
      p == IF IsSome(prototype) THEN 1 ELSE 0
  IN  /\ Len(chain) = n + p + 1
      /\ \A k \in 1..n :
           /\ chain[k].from_with_proto
           /\ chain[k].ctx = Unwrap(stack[KthConsulted(k)].prototype)
      /\ p = 1 => (~chain[n + 1].from_with_proto /\ chain[n + 1].ctx = Unwrap(prototype))
      /\ ~chain[n + p + 1].from_with_proto
      /\ chain[n + p + 1].ctx = stack[Len(stack)].context

\* the patterns are visited chain entry by chain entry, each entry's in the
\* order of context_iter
VisitedFollowsChain(chain, cands) ==
  \A i, j \in 1..Len(cands) :
    i < j => \E a, b \in 1..Len(chain) :
               /\ a <= b
               /\ \E x \in 1..Len(context_iter(chain[a].ctx)) :
                    cands[i].id = context_iter(chain[a].ctx)[x]
               /\ \E y \in 1..Len(context_iter(chain[b].ctx)) :
                    cands[j].id = context_iter(chain[b].ctx)[y]
               /\ cands[i].from_with_proto = chain[a].from_with_proto
               /\ cands[j].from_with_proto = chain[b].from_with_proto

\* C20: every step visits the with_prototype contexts of the frames from
\* index proto_starts.last() (0 when proto_starts is empty) up to the top,
\* from the bottom up, then the prototype of the top context if there is one,
\* then the top context; the with_prototypes of the frames below that index
\* are not visited; and the winner is flagged from_with_prototype exactly when
\* it was found in a with_prototype context.
ChainOrder ==
  (pc = "parsing" /\ stack /= <<>>)
    => \A chain \in {context_chain(stack, Trimmed)} : \A cands \in {Visited} :
         /\ ChainInOrder(chain)
         /\ VisitedFollowsChain(chain, cands)
         /\ \A fb \in {Winner} :
              IsSome(fb.best)
                => /\ Unwrap(fb.best).from_with_prototype
                        = cands[fb.at].from_with_proto
                   /\ cands[fb.at].from_with_proto
                        <=> fb.at <= Len(Candidates(SubSeq(chain, 1,
                                                       Cardinality(Consulted)), 1))

\* two with_prototypes are visited, the lower first, and the winner comes
\* from the upper one
UpperWithPrototypeWins ==
  /\ pc = "parsing" /\ stack /= <<>>
  /\ Cardinality(Consulted) = 2
  /\ \E fb \in {Winner} :
       /\ IsSome(fb.best) /\ Unwrap(fb.best).from_with_prototype
       /\ Unwrap(fb.best).context = Unwrap(stack[KthConsulted(2)].prototype)

\* find_best_match, lines 323-371 without the return of lines 362-366: the
\* loop over all the visited patterns from the i-th on
RECURSIVE VisitWhole(_, _, _, _, _, _)
ConsiderWhole(cands, i, acc, ln, from, check, r) ==
  IF IsSome(r.found)
     /\ is_better(StartOf(Unwrap(r.found)), acc.min_start, acc.pop_would_loop)
    THEN VisitWhole(cands, i + 1,
                    NewBest(cands[i], i, Unwrap(r.found),
                            is_looping_pop(check, EndOf(Unwrap(r.found)), from,
                                           match_at(cands[i].id).operation),
                            r.cache),
                    ln, from, check)
    ELSE VisitWhole(cands, i + 1, [acc EXCEPT !.cache = r.cache], ln, from, check)

VisitWhole(cands, i, acc, ln, from, check) ==
  IF i > Len(cands) THEN [best |-> acc.best, at |-> acc.at, cache |-> acc.cache]
  ELSE The({ConsiderWhole(cands, i, acc, ln, from, check, r) :
              r \in {search(ln, from, cands[i].id, cands[i].captures, acc.cache)}})

\* the winner of the current state when the whole chain is visited
WholeChainWinner ==
  The({VisitWhole(cands, 1, NoBest(search_cache), line, start,
                  check_pop_loop(non_consuming_push_at, start, stack)) :
         cands \in {Visited}})

\* C21: the early exit of find_best_match does not change its result:
\* returning the first match found exactly at start that is not a looping pop
\* gives the winner that the visit of the whole chain gives.
EarlyExitSameWinner ==
  (pc = "parsing" /\ stack /= <<>>)
    => \A fb \in {Winner} : \A whole \in {WholeChainWinner} :
         fb.best = whole.best /\ fb.at = whole.at

\* find_best_match returns a match found at start before the end of the
\* chain, and a pattern it has not visited matches at start as well
EarlyExitSkipsMatchAtStart ==
  /\ pc = "parsing" /\ stack /= <<>>
  /\ \E fb \in {Winner} : \E u \in {Usable(Visited)} :
       /\ IsSome(fb.best) /\ ~Unwrap(fb.best).would_loop
       /\ StartOf(Unwrap(fb.best).regions) = start
       /\ \E k \in (fb.at + 1)..Len(u) :
            IsSome(u[k]) /\ StartOf(Unwrap(u[k])) = start

\* the step t executes a Push whose match ends at start
NonConsumingPush(t) ==
  /\ Executed(t)
  /\ OperationOf(t).op = "Push"
  /\ EndOf(Unwrap(t.best).regions) = start

\* C22: the loop marker changes only in a step that executes a Push whose
\* match consumes nothing, and becomes (match_end, stack length before the
\* push + 1); a step with a consuming match, with a non-consuming Set, Pop or
\* None, with a looping pop or with no match leaves it as it is; at the start
\* of every parse_line it is (0, 0).
MarkerWrittenByEmptyPushOnly ==
  [][IF pc = "ready" /\ pc' = "parsing"
       THEN non_consuming_push_at' = <<0, 0>>
       ELSE IF pc = "parsing" /\ stack /= <<>>
         THEN \A t \in {Token} :
                non_consuming_push_at'
                  = IF NonConsumingPush(t)
                      THEN <<EndOf(Unwrap(t.best).regions), Len(stack) + 1>>
                      ELSE non_consuming_push_at
         ELSE non_consuming_push_at' = non_consuming_push_at]_vars

\* a Push whose match is empty is executed after start has advanced, with the
\* marker still at an earlier offset
EmptyPushAfterAdvance ==
  /\ pc = "parsing" /\ stack /= <<>>
  /\ start > 0
  /\ non_consuming_push_at[1] < start
  /\ NonConsumingPush(Token)

\* the context of the frame on top of the stack
LevelContext == Ctx(stack[Len(stack)].context)

\* ops is made of the five runs head, scope, caps, pop and tail, in this order
FiveRuns(ops, head, scope, caps, pop, tail) ==
  /\ Len(ops) = Len(head) + Len(scope) + Len(caps) + Len(pop) + Len(tail)
  /\ SubSeq(ops, 1, Len(head)) = head
  /\ SubSeq(ops, Len(head) + 1, Len(head) + Len(scope)) = scope
  /\ SubSeq(ops, Len(head) + Len(scope) + 1,
            Len(head) + Len(scope) + Len(caps)) = caps
  /\ SubSeq(ops, Len(head) + Len(scope) + Len(caps) + 1,
            Len(ops) - Len(tail)) = pop
  /\ SubSeq(ops, Len(ops) - Len(tail) + 1, Len(ops)) = tail

\* the ops of the step t, whose winner rm matched m, are in the order of
\* exec_pattern, with the meta ops of the level context c
OpsInOrder(t, rm, m, c) ==
  /\ FiveRuns(t.ops,
              push_meta_ops(TRUE, m[1], c, MatchPattern(rm).operation),
              Pushes(m[1], MatchPattern(rm).scope),
              capture_ops(MatchPattern(rm), rm.regions),
              IF MatchPattern(rm).scope /= <<>>
                THEN <<PopOp(m[2], Len(MatchPattern(rm).scope))>> ELSE <<>>,
              push_meta_ops(FALSE, m[2], c, MatchPattern(rm).operation))
  /\ \A i \in 1..Len(push_meta_ops(TRUE, m[1], c, MatchPattern(rm).operation)) :
       t.ops[i].at = m[1]
  /\ \A i \in 1..Len(push_meta_ops(FALSE, m[2], c, MatchPattern(rm).operation)) :
       t.ops[Len(t.ops) + 1 - i].at = m[2]

\* C23: the ops of one executed match are, in this order, the initial meta
\* ops at match_start, a Push at match_start for each scope of the pattern,
\* the sorted capture ops, a Pop of the pattern's scopes at match_end when
\* there are any, and the trailing meta ops at match_end; the meta ops are
\* those of the context on top of the stack before the stack is changed, not
\* those of the context that owns the pattern.
OpsOfMatchInOrder ==
  /\ []((pc = "parsing" /\ stack /= <<>>)
          => \A t \in {Token} :
               Executed(t)
                 => OpsInOrder(t, Unwrap(t.best),
                               Unwrap(Pos(Unwrap(t.best).regions, 0)), LevelContext))
  /\ [][(pc = "parsing" /\ stack /= <<>>)
          => \A t \in {Token} : res' = res \o t.ops /\ stack' = t.stack]_vars

\* a pattern included from a context with other meta scopes is executed: it
\* has a scope, both meta op runs are there, and the stack changes
IncludedPatternWithMetaOps ==
  /\ pc = "parsing" /\ stack /= <<>>
  /\ \E t \in {Token} :
       /\ Executed(t)
       /\ Unwrap(t.best).context /= stack[Len(stack)].context
       /\ Ctx(Unwrap(t.best).context).meta_scope /= LevelContext.meta_scope
       /\ MatchPattern(Unwrap(t.best)).scope /= <<>>
       /\ push_meta_ops(TRUE, 0, LevelContext, OperationOf(t)) /= <<>>
       /\ push_meta_ops(FALSE, 0, LevelContext, OperationOf(t)) /= <<>>
       /\ t.stack /= stack

\* the three runs between the meta ops of an executed match rm that matched m
ScopeRun(rm, m) == Pushes(m[1], MatchPattern(rm).scope)
CaptureRun(rm) == capture_ops(MatchPattern(rm), rm.regions)
PopRun(rm, m) ==
  IF MatchPattern(rm).scope /= <<>>
    THEN <<PopOp(m[2], Len(MatchPattern(rm).scope))>> ELSE <<>>

\* the meta ops of the step t, whose winner rm matched m, are head and tail
MetaOpsAre(t, rm, m, head, tail) ==
  FiveRuns(t.ops, head, ScopeRun(rm, m), CaptureRun(rm), PopRun(rm, m), tail)

\* what a Pop emits before and after the token in the level context c
PopHead(m, c) ==
  IF c.meta_content_scope /= <<>>
    THEN <<PopOp(m[1], Len(c.meta_content_scope))>> ELSE <<>>
PopTail(m, c) ==
  (IF c.meta_scope /= <<>> THEN <<PopOp(m[2], Len(c.meta_scope))>> ELSE <<>>)
  \o (IF IsSome(c.clear_scopes) THEN <<RestoreOp(m[2])>> ELSE <<>>)

\* C24: an executed Pop in the level context C emits, before the token, one
\* Pop of the length of C.meta_content_scope at match_start when that list is
\* not empty and nothing otherwise; after the token, one Pop of the length of
\* C.meta_scope at match_end when that list is not empty, followed by one
\* Restore at match_end exactly if C.clear_scopes is set.  An executed None
\* emits no meta op.
MetaOpsOfPopAndNone ==
  (pc = "parsing" /\ stack /= <<>>)
    => \A t \in {Token} :
         /\ (Executed(t) /\ OperationOf(t).op = "Pop")
              => \A m \in {Unwrap(Pos(Unwrap(t.best).regions, 0))} :
                   MetaOpsAre(t, Unwrap(t.best), m,
                              PopHead(m, LevelContext), PopTail(m, LevelContext))
         /\ (Executed(t) /\ OperationOf(t).op = "None")
              => MetaOpsAre(t, Unwrap(t.best),
                            Unwrap(Pos(Unwrap(t.best).regions, 0)), <<>>, <<>>)

\* a Pop is executed in a context that has a meta_scope, a
\* meta_content_scope of another length and clear_scopes
PopOfContextWithAllMeta ==
  /\ pc = "parsing" /\ stack /= <<>>
  /\ Executed(Token) /\ OperationOf(Token).op = "Pop"
  /\ LevelContext.meta_scope /= <<>>
  /\ LevelContext.meta_content_scope /= <<>>
  /\ Len(LevelContext.meta_scope) /= Len(LevelContext.meta_content_scope)
  /\ IsSome(LevelContext.clear_scopes)

RECURSIVE Flat(_)
\* the sequences of the sequence ss, one after another
Flat(ss) == IF ss = <<>> THEN <<>> ELSE Head(ss) \o Flat(Tail(ss))

\* the Clear of the target r at the offset at, if r has clear_scopes
ClearOfTarget(at, r) ==
  IF IsSome(Ctx(r).clear_scopes)
    THEN <<ClearOp(at, Unwrap(Ctx(r).clear_scopes))>> ELSE <<>>

\* what a Push to refs emits before the token: for each target in order its
\* Clear, then the pushes of its meta_scope
PushHead(m, refs) ==
  Flat([k \in 1..Len(refs) |->
          ClearOfTarget(m[1], refs[k]) \o Pushes(m[1], Ctx(refs[k]).meta_scope)])

\* some target of refs has a meta_content_scope
SomeContent(refs) == \E k \in 1..Len(refs) : Ctx(refs[k]).meta_content_scope /= <<>>

\* what a Push to refs emits after the token when a target has a
\* meta_content_scope: a Pop of the meta scopes of the targets, then for each
\* target the pushes of its meta_scope and of its meta_content_scope
PushTail(m, refs) ==
  IF SomeContent(refs)
    THEN (IF SumLen(refs, "meta_scope") > 0
            THEN <<PopOp(m[2], SumLen(refs, "meta_scope"))>> ELSE <<>>)
         \o Flat([k \in 1..Len(refs) |->
                    Pushes(m[2], Ctx(refs[k]).meta_scope)
                    \o Pushes(m[2], Ctx(refs[k]).meta_content_scope)])
    ELSE <<>>

\* C25 as stated: an executed Push emits no meta op after the token, whatever
\* the meta_content_scope of its targets.
PushEmitsNoTrailingMetaOp ==
  (pc = "parsing" /\ stack /= <<>>)
    => \A t \in {Token} :
         (Executed(t) /\ OperationOf(t).op = "Push")
           => \A m \in {Unwrap(Pos(Unwrap(t.best).regions, 0))} :
                MetaOpsAre(t, Unwrap(t.best), m,
                           PushHead(m, OperationOf(t).refs), <<>>)

\* C25, amended: an executed Push emits the Clear and the meta_scope pushes
\* of each target, in target order, at match_start; it emits nothing after
\* the token unless a target has a meta_content_scope, and then it emits at
\* match_end one Pop of the meta scopes of all the targets, when there are
\* any, and for each target in order the pushes of its meta_scope and of its
\* meta_content_scope.
PushRepushesForContentScopes ==
  (pc = "parsing" /\ stack /= <<>>)
    => \A t \in {Token} :
         (Executed(t) /\ OperationOf(t).op = "Push")
           => \A m \in {Unwrap(Pos(Unwrap(t.best).regions, 0))} :
                MetaOpsAre(t, Unwrap(t.best), m,
                           PushHead(m, OperationOf(t).refs),
                           PushTail(m, OperationOf(t).refs))

\* a Push of two contexts is executed, one with clear_scopes and a
\* meta_scope, the other with a meta_content_scope
PushOfContentScopeTarget ==
  /\ pc = "parsing" /\ stack /= <<>>
  /\ Executed(Token) /\ OperationOf(Token).op = "Push"
  /\ Len(OperationOf(Token).refs) = 2
  /\ SomeContent(OperationOf(Token).refs)
  /\ ClearingRefs(OperationOf(Token).refs) /= {}
  /\ SumLen(OperationOf(Token).refs, "meta_scope") > 0

\* what a Set to refs emits before the token: the pushes of the meta_scope of
\* each target, in order
SetHead(m, refs) ==
  Flat([k \in 1..Len(refs) |-> Pushes(m[1], Ctx(refs[k]).meta_scope)])

\* repush of a Set in the level context c
Repush(c, refs) ==
  \/ c.meta_scope /= <<>> \/ c.meta_content_scope /= <<>>
  \/ SomeContent(refs)
  \/ ClearingRefs(refs) /= {}

\* the number of scopes a Set in the level context c pops after the token
SetPopCount(c, refs) ==
  SumLen(refs, "meta_scope") + Len(c.meta_content_scope) + Len(c.meta_scope)

\* what a Set emits after its Pop: for each target in order its Clear, the
\* pushes of its meta_scope and those of its meta_content_scope
SetRepushes(m, refs) ==
  Flat([k \in 1..Len(refs) |->
          ClearOfTarget(m[2], refs[k])
          \o Pushes(m[2], Ctx(refs[k]).meta_scope)
          \o Pushes(m[2], Ctx(refs[k]).meta_content_scope)])

\* C26 as stated: an executed Set emits trailing meta ops exactly if repush
\* holds, and then exactly one Pop(k), k the number of meta scopes of the
\* targets and of the level context, followed by the Clear and the pushes of
\* each target.
SetAlwaysPopsWhenRepush ==
  (pc = "parsing" /\ stack /= <<>>)
    => \A t \in {Token} :
         (Executed(t) /\ OperationOf(t).op = "Set")
           => \A m \in {Unwrap(Pos(Unwrap(t.best).regions, 0))} :
                MetaOpsAre(t, Unwrap(t.best), m,
                           SetHead(m, OperationOf(t).refs),
                           IF Repush(LevelContext, OperationOf(t).refs)
                             THEN <<PopOp(m[2], SetPopCount(LevelContext,
                                                            OperationOf(t).refs))>>
                                  \o SetRepushes(m, OperationOf(t).refs)
                             ELSE <<>>)

\* C26, amended: an executed Set emits trailing meta ops exactly if repush
\* holds; it then emits at match_end one Pop(k), k the number of meta scopes
\* of the targets and of the level context, unless k is 0, when it emits no
\* Pop, followed for each target in order by its Clear if it has
\* clear_scopes, the pushes of its meta_scope and those of its
\* meta_content_scope.
SetPopsWhatThereIsWhenRepush ==
  (pc = "parsing" /\ stack /= <<>>)
    => \A t \in {Token} :
         (Executed(t) /\ OperationOf(t).op = "Set")
           => \A m \in {Unwrap(Pos(Unwrap(t.best).regions, 0))} :
                /\ MetaOpsAre(t, Unwrap(t.best), m,
                              SetHead(m, OperationOf(t).refs),
                              IF Repush(LevelContext, OperationOf(t).refs)
                                THEN (IF SetPopCount(LevelContext,
                                                     OperationOf(t).refs) > 0
                                        THEN <<PopOp(m[2],
                                                     SetPopCount(LevelContext,
                                                                 OperationOf(t).refs))>>
                                        ELSE <<>>)
                                     \o SetRepushes(m, OperationOf(t).refs)
                                ELSE <<>>)
                /\ Repush(LevelContext, OperationOf(t).refs)
                     <=> push_meta_ops(FALSE, m[2], LevelContext, OperationOf(t))
                           /= <<>>

\* a Set is executed for which repush holds only because its target has
\* clear_scopes, and there is no meta scope to pop
SetToClearOnlyTarget ==
  /\ pc = "parsing" /\ stack /= <<>>
  /\ Executed(Token) /\ OperationOf(Token).op = "Set"
  /\ ClearingRefs(OperationOf(Token).refs) /= {}
  /\ ~SomeContent(OperationOf(Token).refs)
  /\ SetPopCount(LevelContext, OperationOf(Token).refs) = 0

\* the contexts the operation o pushes
RefsOf(o) == IF o.op \in {"Push", "Set"} THEN o.refs ELSE <<>>

\* the frames the operation o leaves of the current stack
KeptBy(o) ==
  IF o.op \in {"Pop", "Set"} THEN SubSeq(stack, 1, Len(stack) - 1) ELSE stack

\* stk is the current stack changed as the operation of the pattern pat says
ChangedAsOperationSays(stk, pat) ==
  /\ Len(stk) = Len(KeptBy(pat.operation)) + Len(RefsOf(pat.operation))
  /\ SubSeq(stk, 1, Len(KeptBy(pat.operation))) = KeptBy(pat.operation)
  /\ \A k \in 1..Len(RefsOf(pat.operation)) :
       /\ stk[Len(KeptBy(pat.operation)) + k].context = RefsOf(pat.operation)[k]
       /\ stk[Len(KeptBy(pat.operation)) + k].prototype
            = IF k = Len(RefsOf(pat.operation)) THEN pat.with_prototype ELSE None

\* C27: an executed match changes the stack exactly as its operation says:
\* None leaves it as it is, Pop removes the top frame only, Push adds one frame
\* per context in order on top of the old frames, Set removes the top frame
\* and then adds one frame per context in order; the with_prototype of the
\* pattern is attached to the last pushed frame and no other pushed frame has
\* a prototype.
StackChangesAsOperationSays ==
  [][(pc = "parsing" /\ stack /= <<>>)
       => \A t \in {Token} :
            Executed(t)
              => ChangedAsOperationSays(stack', MatchPattern(Unwrap(t.best)))]_vars

\* a Set of two contexts with a with_prototype is executed above two frames
SetOfTwoWithPrototype ==
  /\ pc = "parsing" /\ Len(stack) >= 2
  /\ Executed(Token) /\ OperationOf(Token).op = "Set"
  /\ Len(OperationOf(Token).refs) = 2
  /\ IsSome(MatchPattern(Unwrap(Token.best)).with_prototype)

Shadowed(ops) ==
  \A e \in shadows :
    (e.op \in ops /\ e.whole /\ stack /= <<>>) => Consulted \cap 1..e.base = {}

\* a step records the push of a with_prototype match, and it visits again
\* what was visited before a Push when it takes the stack back to its length
RecordedAndRestored(ops) ==
  /\ (pc = "parsing" /\ stack /= <<>>)
       => \A t \in {Token} :
            (/\ Executed(t) /\ Unwrap(t.best).from_with_prototype
             /\ OperationOf(t).op \in ops)
              => proto_starts' = Append(Trimmed, Len(stack))
  /\ \A e \in shadows :
       (e.op = "Push" /\ e.op \in ops /\ Len(stack) > e.base /\ Len(stack') = e.base)
         => Consulted' = e.consulted

\* C29: when an executed match found in a with_prototype pushes contexts, by
\* a Push or by a Set, the stack length before it is appended to
\* proto_starts; as long as all the pushed frames are on the stack no
\* with_prototype of a frame below them is visited; and once the stack is
\* back to the length it had before the Push, the with_prototypes visited
\* are those visited before it.
PushedFramesShadowWithPrototypes ==
  []Shadowed({"Push", "Set"}) /\ [][RecordedAndRestored({"Push", "Set"})]_vars

\* the same of the pushes made by a Push
PushShadowsWithPrototypes ==
  []Shadowed({"Push"}) /\ [][RecordedAndRestored({"Push"})]_vars

\* what the regex engine answers for the visited pattern c, searched from start
EngineAnswer(c) ==
  ok_some(search_with_param(match_at(c.id).regex, line, start,
                            refs_regex(match_at(c.id), c.captures)))

\* the visited pattern c has no operation and the engine finds an empty match
\* of it
EmptyNone(c) ==
  /\ match_at(c.id).operation.op = "None"
  /\ EngineAnswer(c) /= None
  /\ Unwrap(Pos(EngineAnswer(c), 0))[1] = Unwrap(Pos(EngineAnswer(c), 0))[2]

\* the search of the visited pattern c, not answered by the cache, finds
\* nothing and leaves the cache as it was
Discarded(c, cache) ==
  \/ cache_answers(cache, c.id, start)
  \/ /\ search(line, start, c.id, c.captures, cache).found = None
     /\ search(line, start, c.id, c.captures, cache).cache = cache

\* C30: a pattern whose operation is None and whose match is empty is never
\* the winner of a step, its search finds nothing and caches nothing, and the
\* cache never holds such a match; so every executed match with operation
\* None is non-empty and moves start forward.
EmptyNoneNeverWins ==
  /\ []((pc = "parsing" /\ stack /= <<>>)
          => \A cands \in {Visited} :
               /\ \A k \in 1..Len(cands) :
                    /\ EmptyNone(cands[k])
                         => /\ Discarded(cands[k], EmptyCache)
                            /\ Discarded(cands[k], search_cache)
                            /\ Discarded(cands[k], BestAfter(cands, k - 1).cache)
                    /\ \A b \in {BestAfter(cands, k)} :
                         (IsSome(b.best) /\ MatchPattern(Unwrap(b.best)).operation.op = "None")
                           => StartOf(Unwrap(b.best).regions) < EndOf(Unwrap(b.best).regions)
               /\ \A id \in DOMAIN search_cache :
                    (match_at(id).operation.op = "None" /\ IsSome(search_cache[id]))
                      => StartOf(Unwrap(search_cache[id])) < EndOf(Unwrap(search_cache[id])))
  /\ [][(pc = "parsing" /\ stack /= <<>>)
          => \A t \in {Token} :
               (Executed(t) /\ OperationOf(t).op = "None")
                 => /\ StartOf(Unwrap(t.best).regions) < EndOf(Unwrap(t.best).regions)
                    /\ start' > start]_vars

\* a pattern without operation has an empty match where the winner, another
\* pattern without operation visited after it, starts
EmptyNonePassedOver ==
  /\ pc = "parsing" /\ stack /= <<>>
  /\ Executed(Token) /\ OperationOf(Token).op = "None"
  /\ \E k \in 1..Len(Visited) :
       /\ EmptyNone(Visited[k])
       /\ Unwrap(Pos(EngineAnswer(Visited[k]), 0))[1] = StartOf(Unwrap(Token.best).regions)
       /\ k < Winner.at

\* the search of the visited pattern c with the cache `cache` is a pure
\* memoization: answered from the cache, it returns what the search with
\* nothing cached returns and leaves the cache as it is; with a regex
\* derived from the captures it is not answered from the cache and inserts
\* nothing
Memoized(c, cache) ==
  /\ cache_answers(cache, c.id, start)
       => /\ search(line, start, c.id, c.captures, cache).found
               = search(line, start, c.id, c.captures, EmptyCache).found
          /\ search(line, start, c.id, c.captures, cache).cache = cache
  /\ IsSome(refs_regex(match_at(c.id), c.captures))
       => /\ c.id \notin DOMAIN cache
          /\ search(line, start, c.id, c.captures, cache).cache = cache

MemoizedButErrors(c, cache) ==
  /\ cache_answers(cache, c.id, start)
       => /\ \/ search(line, start, c.id, c.captures, cache).found
                  = search(line, start, c.id, c.captures, EmptyCache).found
             \/ cache[c.id] = None /\ ErredBefore(c)
          /\ search(line, start, c.id, c.captures, cache).cache = cache
  /\ IsSome(refs_regex(match_at(c.id), c.captures))
       => /\ c.id \notin DOMAIN cache
          /\ search(line, start, c.id, c.captures, cache).cache = cache

BackrefSearchedBesideCache ==
  /\ pc = "parsing" /\ stack /= <<>>
  /\ DOMAIN search_cache /= {}
  /\ \E k, n \in 1..Len(Visited) :
       /\ Visited[k].id = Visited[n].id
       /\ IsSome(refs_regex(match_at(Visited[k].id), Visited[k].captures))
       /\ IsSome(refs_regex(match_at(Visited[n].id), Visited[n].captures))
       /\ Visited[k].captures /= Visited[n].captures

\* the regex of the visited pattern c does not compile, or its search from
\* start ends with an error of the engine
Fails(c) ==
  \/ compile_fails(match_at(c.id).regex)
  \/ search_with_param(match_at(c.id).regex, line, start,
                       refs_regex(match_at(c.id), c.captures)).err

\* the visited patterns without those that fail
WithoutFailing(cands) == SelectSeq(cands, LAMBDA c : ~Fails(c))

ProtoStart == IF Trimmed = <<>> THEN 0 ELSE Trimmed[Len(Trimmed)]

\* C33: proto_starts is strictly increasing in every reachable state, and
\* when find_best_match is called each of its entries is less than the stack
\* length, so that the slice stack[proto_start..] is in range and not empty.
ProtoStartsIncreasing ==
  /\ \A i, j \in 1..Len(proto_starts) : i < j => proto_starts[i] < proto_starts[j]
  /\ (pc = "parsing" /\ stack /= <<>>)
       => /\ \A i \in 1..Len(Trimmed) : Trimmed[i] < Len(stack)
          /\ ProtoStart < Len(stack)
          /\ SubSeq(stack, ProtoStart + 1, Len(stack)) /= <<>>

\* find_best_match is called with two entries in proto_starts, and frames
\* below the slice carry a with_prototype
TwoProtoStartsAtSelector ==
  /\ pc = "parsing" /\ stack /= <<>>
  /\ Len(Trimmed) >= 2
  /\ \E i \in 1..ProtoStart : IsSome(stack[i].prototype)

\* C34: within a parse_line call start never decreases from one step to the
\* next and never exceeds line.len(), and the position recorded in the loop
\* marker is never greater than start.
StartWithinLine ==
  /\ [](start <= Len(line) /\ non_consuming_push_at[1] <= start)
  /\ [][pc = "parsing" => start' >= start]_vars

\* at the end of a line an empty push is recorded where start is, after a
\* step that has advanced by more than one character
MarkerAtEndOfLine ==
  /\ pc = "parsing" /\ stack /= <<>>
  /\ start = Len(line) /\ start > 1
  /\ non_consuming_push_at[1] = start

\* C35: ParseState equality is a congruence for parsing: when two
\* ParseStates over the same graph compare equal, parse_line on the same line
\* returns the same ops from both, step by step, and leaves them equal.
EqualStatesParseAlike ==
  twin.alike
    => /\ twin.res = res
       /\ parse_state_eq(twin.state, ParseStateOf(stack, first_line, proto_starts))
       /\ twin.start = start
       /\ pc /= "panicked" => twin.pc = pc

\* two sessions that were given different lines have compared equal with a
\* frame pushed, and both have returned from parsing the same line, which
\* emitted ops and changed the stack
EqualAfterDifferentLines ==
  /\ pc = "ready" /\ twin.pc = "ready"
  /\ twin.alike /\ twin.diverged
  /\ res /= <<>>
  /\ Len(stack) > 3

====
